---- MODULE Spec2Model ----
(***************************************************************************)
(* A model of jupyterlab-unfold's tree browser core:                       *)
(*   - the open-state helpers (openState.ts),                              *)
(*   - the two tree fetch strategies and their fallback wiring             *)
(*     (treeFetchStrategy.ts) driven by FilterFileTreeBrowserModel         *)
(*     (unfold.ts),                                                        *)
(*   - the drag-and-drop controller (DragDropController.ts),               *)
(*   - the virtualization controller (VirtualizationController).           *)
(*                                                                         *)
(* A JavaScript string is a sequence of one-character strings, so that     *)
(* replace, split, join and startsWith are computed and not assumed.       *)
(***************************************************************************)
EXTENDS Integers, Sequences, FiniteSets, TLC

VARIABLES
  \* ---- buildExpandedPaths applied to drawn inputs (SpecPaths)
  bpRoot, bpOpen, bpPtu, bpOut, bpDone,
  \* ---- the two strategies run on the same inputs (SpecStrat)
  stTree, stOpen, stPtu, stSrv, stFb,
  \* ---- FilterFileTreeBrowserModel with fetches in flight (SpecFetch)
  tree, openState, items, fetches, requestCounter, directoryCache,
  \* ---- DragDropController and its container (SpecDrag)
  ctl, scrollTop, isOpenEnv, openCalls, lastOp,
  \* ---- VirtualizationController (SpecWin)
  vcfg, allItems, geom, win, lastRange,
  \* ---- the controller's scheduling fields and the listing's pending update
  \* (SpecScroll)
  virt,
  \* ---- the listing's row nodes and the children of its container (SpecDom)
  dom,
  \* ---- a pure function applied to drawn inputs (SpecEdge, SpecSort)
  pure

bpVars == <<bpRoot, bpOpen, bpPtu, bpOut, bpDone>>
stVars == <<stTree, stOpen, stPtu, stSrv, stFb>>
fetchVars == <<tree, openState, items, fetches, requestCounter, directoryCache>>
dragVars == <<ctl, scrollTop, isOpenEnv, openCalls, lastOp>>
winVars == <<vcfg, allItems, geom, win, lastRange, virt>>
domVars == <<dom>>
pureVars == <<pure>>
vars == <<bpVars, stVars, fetchVars, dragVars, winVars, domVars, pureVars>>

(***************************************************************************)
(* Strings                                                                 *)
(***************************************************************************)

\* The value of an omitted (undefined) optional string argument: a sequence
\* that is no string of the alphabet.
Undefined == <<"undefined">>

EmptyStr == <<>>

Slash == "/"

\* String.prototype.startsWith
StartsWith(s, p) == Len(p) <= Len(s) /\ SubSeq(s, 1, Len(p)) = p

\* JavaScript truthiness of an optional string: undefined and "" are falsy.
Truthy(s) == s # Undefined /\ s # EmptyStr

\* String.prototype.split('/')
RECURSIVE SplitFrom(_, _, _)
SplitFrom(s, i, cur) ==
  IF i > Len(s) THEN <<cur>>
  ELSE IF s[i] = Slash THEN <<cur>> \o SplitFrom(s, i + 1, <<>>)
  ELSE SplitFrom(s, i + 1, Append(cur, s[i]))

Split(s) == SplitFrom(s, 1, <<>>)

\* openState.ts normalizePath: path.replace(/^\//, '') strips ONE leading slash.
normalizePath(path) ==
  IF ~Truthy(path) THEN Undefined
  ELSE IF path[1] = Slash THEN Tail(path) ELSE path

\* The forEach of buildExpandedPaths: the partial paths added for parts[i..].
RECURSIVE PartialPaths(_, _, _)
PartialPaths(parts, i, partialPath) ==
  IF i > Len(parts) THEN {}
  ELSE LET next == IF partialPath # EmptyStr
                   THEN partialPath \o <<Slash>> \o parts[i]
                   ELSE parts[i]
       IN {next} \cup PartialPaths(parts, i + 1, next)

\* An OpenStateMap is a function from the keys the object holds to BOOLEAN.
OpenKeysTrue(os) == {p \in DOMAIN os : os[p]}

\* A faulty variant: the prefixes of the path to reveal are forgotten.
buildExpandedPathsNoPrefixes(os, rootPath, pathToUpdate) ==
  {p \in {rootPath} \cup OpenKeysTrue(os) : p # EmptyStr}

\* openState.ts buildExpandedPaths; the returned array holds no duplicates
\* (it is built from a Set), so it is modelled as a set.
buildExpandedPaths(os, rootPath, pathToUpdate) ==
  LET normalizedUpdatePath == normalizePath(pathToUpdate)
      expanded == {rootPath} \cup OpenKeysTrue(os) \cup
                  (IF Truthy(normalizedUpdatePath)
                   THEN PartialPaths(Split(normalizedUpdatePath), 1, EmptyStr)
                   ELSE {})
  IN  {p \in expanded : p # EmptyStr}   \* .filter(Boolean)

(***************************************************************************)
(* Entries, directory listings and their order                             *)
(***************************************************************************)

\* UTF-16 code units of the characters used in names.
CharCode(c) ==
  CASE c = "." -> 46
    [] c = "/" -> 47
    [] c = ":" -> 58
    [] c = "B" -> 66
    [] c = "a" -> 97
    [] c = "b" -> 98

\* JavaScript's a < b on strings: lexicographic by code unit.
RECURSIVE StrLess(_, _)
StrLess(a, b) ==
  IF b = <<>> THEN FALSE
  ELSE IF a = <<>> THEN TRUE
  ELSE IF a[1] = b[1] THEN StrLess(Tail(a), Tail(b))
  ELSE CharCode(a[1]) < CharCode(b[1])

\* A faulty variant: descending order.
compareByNameDescending(a, b) ==
  IF a = b THEN 0 ELSE IF StrLess(a, b) THEN 1 ELSE -1

\* unfold.ts compareByName
compareByName(a, b) ==
  IF a = b THEN 0 ELSE IF StrLess(a, b) THEN -1 ELSE 1

\* Array.prototype.filter
RECURSIVE FilterSeq(_, _)
FilterSeq(data, keepDirs) ==
  IF data = <<>> THEN <<>>
  ELSE LET rest == FilterSeq(Tail(data), keepDirs)
       IN IF (Head(data).type = "directory") = keepDirs
          THEN <<Head(data)>> \o rest ELSE rest

\* Array.prototype.sort with the comparator compareByName on names: a stable
\* insertion sort.
RECURSIVE InsertByName(_, _)
InsertByName(sorted, e) ==
  IF sorted = <<>> THEN <<e>>
  ELSE IF compareByName(e.name, Head(sorted).name) < 0
       THEN <<e>> \o sorted
       ELSE <<Head(sorted)>> \o InsertByName(Tail(sorted), e)

RECURSIVE SortByName(_)
SortByName(data) ==
  IF data = <<>> THEN <<>>
  ELSE InsertByName(SortByName(SubSeq(data, 1, Len(data) - 1)), data[Len(data)])

\* unfold.ts sortContents: directories first, each group by name.
sortContents(data) ==
  SortByName(FilterSeq(data, TRUE)) \o SortByName(FilterSeq(data, FALSE))

\* PathExt.dirname / PathExt.basename of a root-relative path.
RECURSIVE LastSlash(_, _)
LastSlash(p, i) ==
  IF i = 0 THEN 0 ELSE IF p[i] = Slash THEN i ELSE LastSlash(p, i - 1)

Dirname(p) ==
  LET k == LastSlash(p, Len(p)) IN IF k = 0 THEN EmptyStr ELSE SubSeq(p, 1, k - 1)

Basename(p) == SubSeq(p, LastSlash(p, Len(p)) + 1, Len(p))

Entry(path, type) == [name |-> Basename(path), path |-> path, type |-> type]

\* The root path of the default drive.
RootPath == EmptyStr

\* The file system the listings come from: a set of entries closed under
\* parent directories.
UniverseEntries ==
  { Entry(<<"a">>, "directory"),
    Entry(<<"a", "/", "a">>, "file"),
    Entry(<<"a", "/", "b">>, "directory"),
    Entry(<<"a", "/", "b", "/", "a">>, "file"),
    Entry(<<"a", "b">>, "directory"),
    Entry(<<"b">>, "file") }

IsTree(t) ==
  \A e \in t : Dirname(e.path) # RootPath =>
    \E d \in t : d.path = Dirname(e.path) /\ d.type = "directory"

Trees == {t \in SUBSET UniverseEntries : IsTree(t)}

Children(t, dir) == {e \in t : Dirname(e.path) = dir}

\* The content array of Contents.IManager.get(path): the children of the
\* directory in the order the contents service happens to return them (here
\* descending by path, files and directories mixed), which sortContents must
\* put right.
RECURSIVE SeqDescending(_)
SeqDescending(S) ==
  IF S = {} THEN <<>>
  ELSE LET m == CHOOSE x \in S : \A y \in S : y = x \/ StrLess(y.path, x.path)
       IN <<m>> \o SeqDescending(S \ {m})

RawContent(t, dir) == SeqDescending(Children(t, dir))

(***************************************************************************)
(* Open state                                                              *)
(***************************************************************************)

\* openState[k] = v on a JavaScript object
SetKey(os, k, v) == [p \in DOMAIN os \cup {k} |-> IF p = k THEN v ELSE os[p]]

\* unfold.ts isOpen: !!this.openState[path]
isOpen(os, path) == path \in DOMAIN os /\ os[path]

\* A faulty variant: the stored flag alone decides, the path to reveal is ignored.
shouldDirectoryBeOpenStoredOnly(os, entryPath, pathToUpdate) ==
  isOpen(os, entryPath)

\* openState.ts shouldDirectoryBeOpen
shouldDirectoryBeOpen(os, entryPath, pathToUpdate) ==
  \/ Truthy(pathToUpdate) /\ StartsWith(pathToUpdate, <<Slash>> \o entryPath)
  \/ isOpen(os, entryPath)

\* A faulty variant: files are collapsed like directories.
RECURSIVE ReconcileFromAnyType(_, _, _, _)
ReconcileFromAnyType(os, entries, i, expandedPathSet) ==
  IF i > Len(entries) THEN os
  ELSE LET entry == entries[i]
       IN IF entry.path \notin expandedPathSet
          THEN ReconcileFromAnyType(SetKey(os, entry.path, FALSE), entries,
                                    i + 1, expandedPathSet)
          ELSE ReconcileFromAnyType(os, entries, i + 1, expandedPathSet)

\* A faulty variant: the flag of an unexpanded directory is flipped instead
\* of cleared.
RECURSIVE ReconcileFromFlipping(_, _, _, _)
ReconcileFromFlipping(os, entries, i, expandedPathSet) ==
  IF i > Len(entries) THEN os
  ELSE LET entry == entries[i]
       IN IF entry.type = "directory" /\ entry.path \notin expandedPathSet
          THEN ReconcileFromFlipping(
                 SetKey(os, entry.path, ~isOpen(os, entry.path)), entries,
                 i + 1, expandedPathSet)
          ELSE ReconcileFromFlipping(os, entries, i + 1, expandedPathSet)

\* The loop of reconcileOpenStateFromItems over items[i..].
RECURSIVE ReconcileFrom(_, _, _, _)
ReconcileFrom(os, entries, i, expandedPathSet) ==
  IF i > Len(entries) THEN os
  ELSE LET entry == entries[i]
       IN IF entry.type = "directory" /\ entry.path \notin expandedPathSet
          THEN ReconcileFrom(SetKey(os, entry.path, FALSE), entries, i + 1,
                             expandedPathSet)
          ELSE ReconcileFrom(os, entries, i + 1, expandedPathSet)

\* A faulty variant: the root is not forced open.
reconcileOpenStateFromItemsNoRoot(os, entries, expandedPaths, rootPath) ==
  ReconcileFrom(os, entries, 1, expandedPaths)

\* openState.ts reconcileOpenStateFromItems (the elapsed time it returns is
\* not modelled); the result is the map after the in-place updates.
reconcileOpenStateFromItems(os, entries, expandedPaths, rootPath) ==
  ReconcileFrom(SetKey(os, rootPath, TRUE), entries, 1, expandedPaths)

(***************************************************************************)
(* The fetch strategies                                                    *)
(***************************************************************************)

\* The tree endpoint's answer: the rows below `path`, depth first in
\* pre-order, each listed directory in the canonical order, descending into
\* the directories named in open_paths.
RECURSIVE ServerRows(_, _, _)
RECURSIVE ServerTree(_, _, _)
ServerRows(t, content, openPaths) ==
  IF content = <<>> THEN <<>>
  ELSE LET entry == Head(content)
       IN <<entry>>
          \o (IF entry.type = "directory" /\ entry.path \in openPaths
              THEN ServerTree(t, entry.path, openPaths) ELSE <<>>)
          \o ServerRows(t, Tail(content), openPaths)

ServerTree(t, path, openPaths) ==
  ServerRows(t, sortContents(RawContent(t, path)), openPaths)

\* The part of fetchViaServer after the tree listing has arrived: the
\* reconciled map and the rows returned.
fetchViaServerResume(os, path, expandedPaths, listing) ==
  [items |-> listing,
   os |-> reconcileOpenStateFromItems(os, listing, expandedPaths, path)]

\* The synchronous run of fetchViaContentsRecursive between two suspensions.
\* stack holds one frame per active call (its sorted listing and the index of
\* the next entry of its for loop); acc is the rows pushed so far, in the
\* order the calls' concatenations produce.  The run ends when a listing that
\* is not cached must be awaited (waiting), or when the outermost call returns
\* (done).
RECURSIVE FbLoop(_, _, _, _, _)
FbLoop(stack, acc, os, cache, pathToUpdate) ==
  IF stack = <<>>
  THEN [stack |-> stack, acc |-> acc, os |-> os, waiting |-> Undefined, done |-> TRUE]
  ELSE
    LET top == stack[Len(stack)]
        below == SubSeq(stack, 1, Len(stack) - 1)
    IN
    IF top.idx > Len(top.content)
    THEN FbLoop(below, acc, os, cache, pathToUpdate)
    ELSE
      LET entry == top.content[top.idx]
          stack2 == Append(below, [top EXCEPT !.idx = top.idx + 1])
          acc2 == Append(acc, entry)
      IN
      IF entry.type # "directory"
      THEN FbLoop(stack2, acc2, os, cache, pathToUpdate)
      ELSE IF shouldDirectoryBeOpen(os, entry.path, pathToUpdate)
      THEN IF entry.path \in DOMAIN cache
           THEN FbLoop(Append(stack2, [content |-> cache[entry.path], idx |-> 1]),
                       acc2, SetKey(os, entry.path, TRUE), cache, pathToUpdate)
           ELSE [stack |-> stack2, acc |-> acc2, os |-> os,
                 waiting |-> entry.path, done |-> FALSE]
      ELSE FbLoop(stack2, acc2, SetKey(os, entry.path, FALSE), cache, pathToUpdate)

\* fetchViaContentsRecursive(path) resumed with the sorted listing of path.
fetchViaContentsResume(stack, acc, os, cache, pathToUpdate, path, sortedContent) ==
  FbLoop(Append(stack, [content |-> sortedContent, idx |-> 1]), acc,
         SetKey(os, path, TRUE), cache, pathToUpdate)

\* getDirectoryContents on a cache miss: the sorted listing that is cached
\* and returned.
getDirectoryContents(t, path) == sortContents(RawContent(t, path))

\* fetchViaContents run to completion with nothing interleaved and every
\* listing answered: the rows and the final map.
RECURSIVE FbRun(_, _, _, _, _, _, _)
FbRun(t, stack, acc, os, cache, pathToUpdate, path) ==
  LET content == IF path \in DOMAIN cache THEN cache[path]
                 ELSE getDirectoryContents(t, path)
      cache2 == [p \in DOMAIN cache \cup {path} |->
                   IF p = path THEN content ELSE cache[p]]
      r == fetchViaContentsResume(stack, acc, os, cache2, pathToUpdate, path, content)
  IN IF r.done THEN [items |-> r.acc, os |-> r.os]
     ELSE FbRun(t, r.stack, r.acc, r.os, cache2, pathToUpdate, r.waiting)

EmptyCache == [p \in {} |-> <<>>]

fetchViaContents(t, os, path, pathToUpdate) ==
  FbRun(t, <<>>, <<>>, os, EmptyCache, pathToUpdate, path)

\* fetchViaServer run to completion against a tree endpoint that answers.
fetchViaServer(t, os, path, pathToUpdate) ==
  LET expandedPaths == buildExpandedPaths(os, path, pathToUpdate)
  IN fetchViaServerResume(os, path, expandedPaths,
                          ServerTree(t, path, expandedPaths))

(***************************************************************************)
(* Inputs                                                                  *)
(***************************************************************************)

\* Keys an OpenStateMap may hold, and the maps over them.
OpenKeys == {EmptyStr, <<"a">>, <<"a", "/", "b">>}

OpenStateMaps ==
  UNION {[K -> BOOLEAN] : K \in SUBSET OpenKeys}

\* Paths to reveal: omitted, empty, with and without the leading slash, a
\* directory whose name extends another's, a file, the forced refresh, a
\* lone slash and a doubled leading slash.
PathsToUpdate ==
  { Undefined, EmptyStr,
    <<"/", "a">>, <<"a">>,
    <<"/", "a", "/", "b">>, <<"a", "/", "b">>,
    <<"/", "a", "b">>, <<"/", "b">>, <<".">>,
    <<"/">>, <<"/", "/", "a">> }

\* A drive's root path ("a:"), besides the default drive's.
RootPaths == {RootPath, <<"a", ":">>}

(***************************************************************************)
(* SpecPaths: buildExpandedPaths on drawn inputs                           *)
(***************************************************************************)
NoResult == [done |-> FALSE]

BpIdle ==
  /\ bpRoot = RootPath /\ bpOpen = EmptyCache /\ bpPtu = Undefined
  /\ bpOut = {} /\ bpDone = FALSE

StIdle ==
  /\ stTree = {} /\ stOpen = EmptyCache /\ stPtu = Undefined
  /\ stSrv = NoResult /\ stFb = NoResult

InitPaths ==
  /\ bpRoot \in RootPaths
  /\ bpOpen \in OpenStateMaps
  /\ bpPtu \in PathsToUpdate
  /\ bpOut = {}
  /\ bpDone = FALSE

BuildPaths ==
  /\ ~bpDone
  /\ bpOut' = buildExpandedPaths(bpOpen, bpRoot, bpPtu)
  /\ bpDone' = TRUE
  /\ UNCHANGED <<bpRoot, bpOpen, bpPtu, stVars, domVars, pureVars, fetchVars, dragVars, winVars>>

NextPaths == BuildPaths

(***************************************************************************)
(* SpecStrat: the two strategies on the same tree, map and path to reveal  *)
(***************************************************************************)
InitStrat ==
  /\ stTree \in Trees
  /\ stOpen \in OpenStateMaps
  /\ stPtu \in PathsToUpdate
  /\ stSrv = NoResult
  /\ stFb = NoResult

RunServer ==
  /\ ~stSrv.done
  /\ LET r == fetchViaServer(stTree, stOpen, RootPath, stPtu)
     IN stSrv' = [done |-> TRUE, items |-> r.items, os |-> r.os]
  /\ UNCHANGED <<stTree, stOpen, stPtu, stFb, bpVars, domVars, pureVars, fetchVars, dragVars, winVars>>

RunFallback ==
  /\ ~stFb.done
  /\ LET r == fetchViaContents(stTree, stOpen, RootPath, stPtu)
     IN stFb' = [done |-> TRUE, items |-> r.items, os |-> r.os]
  /\ UNCHANGED <<stTree, stOpen, stPtu, stSrv, bpVars, domVars, pureVars, fetchVars, dragVars, winVars>>

NextStrat == RunServer \/ RunFallback

(***************************************************************************)
(* SpecFetch: FilterFileTreeBrowserModel with fetches in flight            *)
(*                                                                         *)
(* One action is one task of the event loop: an event handler, or the      *)
(* arrival of a network answer followed by every continuation that runs    *)
(* before the next network wait.  An awaited value that is already there   *)
(* (a cached listing, a returned array) resumes in a microtask, which no   *)
(* event handler can precede, so it does not end the action.               *)
(***************************************************************************)

\* Requests issued in one run of the model.
MaxRequests == 3

\* The trees the model is run on.
FetchTrees ==
  { UniverseEntries,
    {Entry(<<"a">>, "directory"), Entry(<<"a", "/", "a">>, "file")} }

\* The paths cd is called with by the collaborators of the model: the root
\* (restore, toggle), '.' (refresh) and a directory to reveal.
CdPaths == {RootPath, <<".">>, <<"/", "a">>}

\* The ways the server attempt fails: the request is rejected, the answer is
\* not OK, or the answer's body holds no items array.
ServerErrors == {"transport", "notOk", "noItems"}

\* What the model records of the call that started a fetch: cd or toggle, the
\* path it was called with, whether that path was open before the call, and
\* whether no other fetch was in flight then.
Origin(op, path, wasOpen) ==
  [ op |-> op, path |-> path, wasOpen |-> wasOpen,
    alone |-> \A j \in DOMAIN fetches :
                fetches[j].phase \notin {"server", "contents"} ]

NewFetch(pathToUpdate, expandedPaths, origin) ==
  [ ptu |-> pathToUpdate,
    origin |-> origin,
    expandedPaths |-> expandedPaths,
    phase |-> "server",          \* server | contents | done | failed
    serverFailed |-> FALSE,
    snapshot |-> EmptyCache,     \* the map when the fallback traversal began
    contentsError |-> FALSE,
    stack |-> <<>>, acc |-> <<>>, waiting |-> Undefined,
    source |-> "none",
    result |-> <<>> ]

\* The fetch record after a synchronous run r of the fallback traversal.
AfterFallbackRun(f, r) ==
  IF r.done
  THEN [f EXCEPT !.phase = "done", !.source = "contents", !.result = r.acc,
                 !.stack = <<>>, !.acc = <<>>, !.waiting = Undefined]
  ELSE [f EXCEPT !.phase = "contents", !.stack = r.stack, !.acc = r.acc,
                 !.waiting = r.waiting]

\* A faulty variant: no catch, the server's error reaches the caller.
fetchWithFallbackNoCatch(f, os, cache, err) ==
  [f |-> [f EXCEPT !.serverFailed = TRUE, !.phase = "failed"], os |-> os]

\* treeFetchStrategy.ts fetchWithFallback, from the rejection of
\* fetchViaServer on: the catch block calls fetchViaContents, whose root
\* listing is either cached or awaited.
fetchWithFallback(f, os, cache, err) ==
  LET f1 == [f EXCEPT !.serverFailed = TRUE, !.snapshot = os]
  IN IF RootPath \in DOMAIN cache
     THEN LET r == fetchViaContentsResume(<<>>, <<>>, os, cache, f.ptu,
                                          RootPath, cache[RootPath])
          IN [f |-> AfterFallbackRun(f1, r), os |-> r.os]
     ELSE [f |-> [f1 EXCEPT !.phase = "contents", !.waiting = RootPath],
           os |-> os]

\* handleContents in cd: the rows of a fetch that resolved replace the
\* model's items.
handleContents(f, current) == IF f.phase = "done" THEN f.result ELSE current

InitFetch ==
  /\ tree \in FetchTrees
  /\ openState = EmptyCache
  /\ items = <<>>
  /\ fetches = <<>>
  /\ requestCounter = 0
  /\ directoryCache = EmptyCache

\* cd(pathToUpdate) up to the request sent by fetchTreeListing.
StartCd(os, pathToUpdate, origin) ==
  /\ requestCounter < MaxRequests
  /\ requestCounter' = requestCounter + 1
  /\ fetches' = Append(fetches,
                  NewFetch(pathToUpdate,
                           buildExpandedPaths(os, RootPath, pathToUpdate), origin))
  /\ directoryCache' = IF pathToUpdate = <<".">> THEN EmptyCache ELSE directoryCache

Cd(pathToUpdate) ==
  /\ StartCd(openState, pathToUpdate, Origin("cd", pathToUpdate, FALSE))
  /\ UNCHANGED <<tree, openState, items, bpVars, domVars, pureVars, stVars, dragVars, winVars>>

\* The directories a click can toggle: those of the displayed rows; the root
\* is what toggle() defaults to.
TogglePaths ==
  {RootPath} \cup {items[i].path : i \in {j \in 1..Len(items) : items[j].type = "directory"}}

Toggle(pathToToggle) ==
  /\ openState' = SetKey(openState, pathToToggle, ~isOpen(openState, pathToToggle))
  /\ StartCd(openState', RootPath,
             Origin("toggle", pathToToggle, isOpen(openState, pathToToggle)))
  /\ UNCHANGED <<tree, items, bpVars, domVars, pureVars, stVars, dragVars, winVars>>

ServerResponds(i) ==
  /\ fetches[i].phase = "server"
  /\ LET f == fetches[i]
         listing == ServerTree(tree, RootPath, f.expandedPaths)
         r == fetchViaServerResume(openState, RootPath, f.expandedPaths, listing)
         f2 == [f EXCEPT !.phase = "done", !.source = "server", !.result = r.items]
     IN /\ openState' = r.os
        /\ fetches' = [fetches EXCEPT ![i] = f2]
        /\ items' = handleContents(f2, items)
  /\ UNCHANGED <<tree, requestCounter, directoryCache, bpVars, domVars, pureVars, stVars, dragVars, winVars>>

ServerFails(i, err) ==
  /\ fetches[i].phase = "server"
  /\ LET os1 == IF err = "noItems" THEN SetKey(openState, RootPath, TRUE)
                ELSE openState
         r == fetchWithFallback(fetches[i], os1, directoryCache, err)
     IN /\ openState' = r.os
        /\ fetches' = [fetches EXCEPT ![i] = r.f]
        /\ items' = handleContents(r.f, items)
  /\ UNCHANGED <<tree, requestCounter, directoryCache, bpVars, domVars, pureVars, stVars, dragVars, winVars>>

ListingArrives(i) ==
  /\ fetches[i].phase = "contents"
  /\ LET f == fetches[i]
         sortedContent == getDirectoryContents(tree, f.waiting)
         cache2 == [p \in DOMAIN directoryCache \cup {f.waiting} |->
                      IF p = f.waiting THEN sortedContent ELSE directoryCache[p]]
         r == fetchViaContentsResume(f.stack, f.acc, openState, cache2, f.ptu,
                                     f.waiting, sortedContent)
         f2 == AfterFallbackRun(f, r)
     IN /\ directoryCache' = cache2
        /\ openState' = r.os
        /\ fetches' = [fetches EXCEPT ![i] = f2]
        /\ items' = handleContents(f2, items)
  /\ UNCHANGED <<tree, requestCounter, bpVars, domVars, pureVars, stVars, dragVars, winVars>>

ListingFails(i) ==
  /\ fetches[i].phase = "contents"
  /\ fetches' = [fetches EXCEPT ![i] =
                   [@ EXCEPT !.phase = "failed", !.contentsError = TRUE]]
  /\ UNCHANGED <<tree, openState, items, requestCounter, directoryCache,
                 bpVars, domVars, pureVars, stVars, dragVars, winVars>>

NextFetch ==
  \/ \E p \in CdPaths : Cd(p)
  \/ \E p \in TogglePaths : Toggle(p)
  \/ \E i \in DOMAIN fetches : ServerResponds(i)
  \/ \E i \in DOMAIN fetches, err \in ServerErrors : ServerFails(i, err)
  \/ \E i \in DOMAIN fetches : ListingArrives(i)
  \/ \E i \in DOMAIN fetches : ListingFails(i)

(***************************************************************************)
(* DragDropController                                                      *)
(*                                                                         *)
(* The controller's private fields are the fields of the record ctl; its   *)
(* methods are operators from a controller record (and what they read of   *)
(* the page) to the controller record they leave.  Lengths along the       *)
(* scroll axis are counted in units of 1/ScrollUnit pixel, in which every  *)
(* edge-scroll velocity of an integer pointer position is an integer.      *)
(***************************************************************************)

EDGE_SCROLL_ZONE_PX == 28

EDGE_SCROLL_MAX_PX_PER_FRAME == 20

ScrollUnit == EDGE_SCROLL_ZONE_PX * EDGE_SCROLL_ZONE_PX

\* The height of one rendered row, in pixels.
RowHeightPx == 24

\* The container: its bounding rectangle starts at RectTop and is
\* ClientHeightPx high.
ClientHeightPx == 72

RectTop == 0

RectBottom == RectTop + ClientHeightPx

\* null
Null == <<"null">>

\* The rows on display during the drag: the full tree with directory a open.
DragRows == ServerTree(UniverseEntries, RootPath, {<<"a">>})

DragDirs == {DragRows[i].path : i \in {j \in 1..Len(DragRows) : DragRows[j].type = "directory"}}

ScrollHeight == Len(DragRows) * RowHeightPx * ScrollUnit

ClientHeight == ClientHeightPx * ScrollUnit

\* The private fields as the constructor leaves them; timerPending,
\* timerPath and timers are the browser's side of window.setTimeout: whether
\* the callback registered last is still to run, the path its closure
\* captured, and the number of callbacks registered and neither run nor
\* cleared.
InitCtl ==
  [ dragInProgress |-> FALSE,
    activeDropTargetPath |-> Null,
    springHoverPath |-> Null,
    springHoverTimer |-> 0,
    timerPending |-> FALSE,
    timerPath |-> Null,
    timers |-> 0,
    springOpenedPaths |-> {},
    edgeScrollRaf |-> 0,
    edgeFrames |-> 0,
    edgeScrollVelocity |-> 0,
    edgePointerClientX |-> 0,
    edgePointerClientY |-> 0 ]

\* document.elementFromPoint(...).closest('.jp-DirListing-item') data-path:
\* the row drawn under the pointer at the current scroll position.
RowAt(clientY, st) ==
  IF clientY < RectTop \/ clientY >= RectBottom THEN Null
  ELSE LET idx == ((st + (clientY - RectTop) * ScrollUnit)
                   \div (RowHeightPx * ScrollUnit)) + 1
       IN IF idx <= Len(DragRows) THEN DragRows[idx].path ELSE Null

rowPathAtPoint(clientY, target, st) ==
  IF target # Null THEN target ELSE RowAt(clientY, st)

\* The null entry, for a path that names no row.
NullItem == Entry(Null, "null")

\* _getItemByPath over the rows the model holds at that moment.
getItemByPathIn(rows, path) ==
  IF \E i \in 1..Len(rows) : rows[i].path = path
  THEN rows[CHOOSE i \in 1..Len(rows) : rows[i].path = path]
  ELSE NullItem

\* _getItemByPath: the row of that path among model.items().
getItemByPath(path) == getItemByPathIn(items, path)

cancelSpringHover(c) ==
  IF c.springHoverTimer # 0
  THEN [c EXCEPT !.springHoverPath = Null, !.springHoverTimer = 0,
                 !.timerPending = FALSE, !.timerPath = Null,
                 !.timers = IF c.timerPending THEN @ - 1 ELSE @]
  ELSE [c EXCEPT !.springHoverPath = Null]

\* A faulty variant: a path spring-opened before is armed again.
updateSpringHoverForgetful(c, path, open) ==
  LET item == getItemByPath(path)
      shouldSpring == item # NullItem /\ item.type = "directory" /\ path \notin open
  IN IF ~shouldSpring THEN cancelSpringHover(c)
     ELSE IF c.springHoverPath = path /\ c.springHoverTimer # 0 THEN c
     ELSE [cancelSpringHover(c) EXCEPT !.springHoverPath = path,
             !.springHoverTimer = 1, !.timerPending = TRUE, !.timerPath = path,
             !.timers = @ + 1]

updateSpringHover(c, path, open) ==
  LET item == getItemByPath(path)
      shouldSpring == /\ item # NullItem
                      /\ item.type = "directory"
                      /\ path \notin open
                      /\ path \notin c.springOpenedPaths
  IN IF ~shouldSpring THEN cancelSpringHover(c)
     ELSE IF c.springHoverPath = path /\ c.springHoverTimer # 0 THEN c
     ELSE [cancelSpringHover(c) EXCEPT !.springHoverPath = path,
             !.springHoverTimer = 1, !.timerPending = TRUE, !.timerPath = path,
             !.timers = @ + 1]

\* A faulty variant: leaving every row keeps the spring-load timer.
setDropTargetPathKeepsTimer(c, path, open) ==
  IF c.activeDropTargetPath = path THEN c
  ELSE LET c1 == [c EXCEPT !.activeDropTargetPath = path]
       IN IF path = Null \/ path = EmptyStr THEN c1
          ELSE updateSpringHover(c1, path, open)

setDropTargetPath(c, path, open) ==
  IF c.activeDropTargetPath = path THEN c
  ELSE LET c1 == [c EXCEPT !.activeDropTargetPath = path]
       IN IF path = Null \/ path = EmptyStr THEN cancelSpringHover(c1)
          ELSE updateSpringHover(c1, path, open)

\* A faulty variant: the zone at the bottom edge is looked at first.
edgeScrollVelocityBottomFirst(rect, clientY) ==
  IF clientY < rect.top \/ clientY > rect.bottom THEN 0
  ELSE LET topDistance == clientY - rect.top
           bottomDistance == rect.bottom - clientY
       IN IF bottomDistance < EDGE_SCROLL_ZONE_PX
          THEN EDGE_SCROLL_MAX_PX_PER_FRAME
               * (EDGE_SCROLL_ZONE_PX - bottomDistance)
               * (EDGE_SCROLL_ZONE_PX - bottomDistance)
          ELSE IF topDistance < EDGE_SCROLL_ZONE_PX
          THEN 0 - EDGE_SCROLL_MAX_PX_PER_FRAME
                   * (EDGE_SCROLL_ZONE_PX - topDistance)
                   * (EDGE_SCROLL_ZONE_PX - topDistance)
          ELSE 0

\* computeEdgeScrollVelocity for a bounding rectangle of the container.  The
\* velocity is in units per frame: 20 * ratio * ratio pixels with
\* ratio = 1 - distance / 28, that is 20 * (28 - distance)^2 units.
edgeScrollVelocity(rect, clientY) ==
  IF clientY < rect.top \/ clientY > rect.bottom THEN 0
  ELSE LET topDistance == clientY - rect.top
           bottomDistance == rect.bottom - clientY
       IN IF topDistance < EDGE_SCROLL_ZONE_PX
          THEN 0 - EDGE_SCROLL_MAX_PX_PER_FRAME
                   * (EDGE_SCROLL_ZONE_PX - topDistance)
                   * (EDGE_SCROLL_ZONE_PX - topDistance)
          ELSE IF bottomDistance < EDGE_SCROLL_ZONE_PX
          THEN EDGE_SCROLL_MAX_PX_PER_FRAME
               * (EDGE_SCROLL_ZONE_PX - bottomDistance)
               * (EDGE_SCROLL_ZONE_PX - bottomDistance)
          ELSE 0

\* The velocity for the container of the drag.
computeEdgeScrollVelocity(clientY) ==
  edgeScrollVelocity([top |-> RectTop, bottom |-> RectBottom], clientY)

\* window.requestAnimationFrame(step): edgeFrames counts the step callbacks
\* the browser holds, registered and neither run nor cancelled.
requestEdgeFrame(c) == [c EXCEPT !.edgeScrollRaf = 1, !.edgeFrames = @ + 1]

\* window.cancelAnimationFrame(this._edgeScrollRaf), for a handle that is
\* not 0.
cancelEdgeFrame(c) ==
  [c EXCEPT !.edgeScrollRaf = 0, !.edgeFrames = IF @ > 0 THEN @ - 1 ELSE 0]

\* A faulty variant: a frame is requested whether or not one is pending.
startEdgeAutoScrollUnguarded(c) == requestEdgeFrame(c)

startEdgeAutoScroll(c) ==
  IF c.edgeScrollRaf # 0 THEN c ELSE requestEdgeFrame(c)

\* A faulty variant: the frame is cancelled but the velocity is kept.
stopEdgeAutoScrollKeepsVelocity(c) ==
  IF c.edgeScrollRaf # 0 THEN cancelEdgeFrame(c) ELSE c

stopEdgeAutoScroll(c) ==
  LET c1 == IF c.edgeScrollRaf # 0 THEN cancelEdgeFrame(c) ELSE c
  IN [c1 EXCEPT !.edgeScrollVelocity = 0]

updateDragState(c, clientX, clientY, target, open, st) ==
  LET c1 == [c EXCEPT !.dragInProgress = TRUE,
                      !.edgePointerClientX = clientX,
                      !.edgePointerClientY = clientY]
      c2 == setDropTargetPath(c1, rowPathAtPoint(clientY, target, st), open)
      c3 == [c2 EXCEPT !.edgeScrollVelocity = computeEdgeScrollVelocity(clientY)]
  IN IF c3.edgeScrollVelocity # 0 THEN startEdgeAutoScroll(c3)
     ELSE stopEdgeAutoScroll(c3)

cleanup(c, open) ==
  LET c1 == [c EXCEPT !.dragInProgress = FALSE]
      c2 == setDropTargetPath(c1, Null, open)
      c3 == cancelSpringHover(c2)
      c4 == [c3 EXCEPT !.springOpenedPaths = {}]
  IN stopEdgeAutoScroll(c4)

\* A faulty variant: every drag leave ends the session.
handleDragLeaveAlwaysCleans(c, insideRoot, open) == cleanup(c, open)

handleDragLeave(c, insideRoot, open) ==
  IF insideRoot THEN c ELSE cleanup(c, open)

Max(a, b) == IF a >= b THEN a ELSE b

Min(a, b) == IF a <= b THEN a ELSE b

\* nextScrollTop of the frame callback, for a container of that scroll
\* height, client height and scroll position.
clampedScrollTop(scrollHeight, clientHeight, st, velocity) ==
  Max(0, Min(scrollHeight - clientHeight, st + velocity))

\* The scroll position one auto-scroll frame sets.
nextScrollTop(c, st) ==
  clampedScrollTop(ScrollHeight, ClientHeight, st, c.edgeScrollVelocity)

\* A faulty variant: the drop target is resolved at the scroll position the
\* frame started from.
edgeScrollStepBeforeScroll(c, open, st2) ==
  LET c1 == setDropTargetPath(c, RowAt(c.edgePointerClientY, scrollTop), open)
      c2 == [c1 EXCEPT !.edgeScrollVelocity =
                          computeEdgeScrollVelocity(c.edgePointerClientY)]
  IN IF c2.edgeScrollVelocity # 0 THEN requestEdgeFrame(c2) ELSE c2

\* A faulty variant: the callback does not request the next frame.
edgeScrollStepOnce(c, open, st2) ==
  LET c1 == setDropTargetPath(c, RowAt(c.edgePointerClientY, st2), open)
  IN [c1 EXCEPT !.edgeScrollVelocity =
                   computeEdgeScrollVelocity(c.edgePointerClientY)]

\* The frame callback `step` of startEdgeAutoScroll, given the scroll position
\* it leaves.
edgeScrollStep(c, open, st2) ==
  LET c1 == setDropTargetPath(c, RowAt(c.edgePointerClientY, st2), open)
      c2 == [c1 EXCEPT !.edgeScrollVelocity =
                          computeEdgeScrollVelocity(c.edgePointerClientY)]
  IN IF c2.edgeScrollVelocity # 0 THEN requestEdgeFrame(c2) ELSE c2

(***************************************************************************)
(* SpecDrag: the controller driven by drag events, timers and frames       *)
(***************************************************************************)

\* Pointer heights of the drag events: above the container, in its top zone,
\* in its middle, 2px above its bottom edge, and below it.
PointerYs ==
  { RectTop - 5, RectTop + 2, RectTop + 30, RectBottom - 2, RectBottom + 5 }

PointerX == 10

\* What the model records of the last operation: its name, the path it was
\* about, two facts of the state it started from, and (for cleanup) the
\* controller it started from.
LastOp(op, path, a, b, pre) ==
  [op |-> op, path |-> path, a |-> a, b |-> b, pre |-> pre]

NoCalls == [p \in DragDirs |-> 0]

InitDrag ==
  /\ ctl = InitCtl
  /\ scrollTop = 0
  /\ isOpenEnv = {<<"a">>}
  /\ openCalls = NoCalls
  /\ lastOp = LastOp("none", Null, FALSE, FALSE, InitCtl)

\* lm-dragenter / lm-dragover
UpdateDragState(clientY, withTarget) ==
  /\ LET target == IF withTarget THEN RowAt(clientY, scrollTop) ELSE Null
     IN ctl' = updateDragState(ctl, PointerX, clientY, target, isOpenEnv, scrollTop)
  /\ lastOp' = [ op |-> "update", path |-> ctl'.activeDropTargetPath,
                 a |-> ctl'.activeDropTargetPath # ctl.activeDropTargetPath,
                 b |-> ctl.timerPending, pre |-> InitCtl,
                 hadFrame |-> ctl.edgeFrames > 0 ]
  /\ UNCHANGED <<scrollTop, isOpenEnv, openCalls, bpVars, domVars, pureVars, stVars, fetchVars, winVars>>

\* A faulty variant: the callback does not ask whether the path is open.
springCallbackReturnsUnasked(c, path, open) ==
  LET hoverPath == c.springHoverPath
  IN hoverPath = Null \/ hoverPath # path

\* The early return of the spring-load timer's callback.
springCallbackReturns(c, path, open) ==
  LET hoverPath == c.springHoverPath
  IN hoverPath = Null \/ hoverPath # path \/ path \in open

\* model.toggle(path), as far as the open flags go.
toggleOpen(open, path) ==
  IF path \in open THEN open \ {path} ELSE open \cup {path}

\* The callback of the spring-load timer runs.  openPath toggles the path in
\* the model.
SpringTimerFires ==
  /\ ctl.timerPending
  /\ LET path == ctl.timerPath
         returns == springCallbackReturns(ctl, path, isOpenEnv)
     IN /\ lastOp' = LastOp("timer", path, ctl.activeDropTargetPath = path,
                            path \notin isOpenEnv, InitCtl)
        /\ IF returns
           THEN /\ ctl' = [ctl EXCEPT !.timerPending = FALSE, !.timers = @ - 1]
                /\ UNCHANGED <<isOpenEnv, openCalls>>
           ELSE /\ ctl' = [ctl EXCEPT !.timerPending = FALSE, !.timers = @ - 1,
                             !.springOpenedPaths = @ \cup {path}]
                /\ isOpenEnv' = toggleOpen(isOpenEnv, path)
                /\ openCalls' = [openCalls EXCEPT ![path] = @ + 1]
  /\ UNCHANGED <<scrollTop, bpVars, domVars, pureVars, stVars, fetchVars, winVars>>

\* The animation frame requested by startEdgeAutoScroll runs.
EdgeScrollFrame ==
  /\ ctl.edgeFrames > 0
  /\ LET c0 == [ctl EXCEPT !.edgeScrollRaf = 0, !.edgeFrames = @ - 1]
     IN IF ~c0.dragInProgress \/ c0.edgeScrollVelocity = 0
        THEN ctl' = c0 /\ scrollTop' = scrollTop
        ELSE /\ scrollTop' = nextScrollTop(c0, scrollTop)
             /\ ctl' = edgeScrollStep(c0, isOpenEnv, scrollTop')
  /\ lastOp' = LastOp("frame", Null, FALSE, FALSE, InitCtl)
  /\ UNCHANGED <<isOpenEnv, openCalls, bpVars, domVars, pureVars, stVars, fetchVars, winVars>>

\* lm-drop, onBeforeDetach: the drag session ends, and with it the count of
\* the session's open-path calls.
Cleanup ==
  /\ ctl' = cleanup(ctl, isOpenEnv)
  /\ openCalls' = NoCalls
  /\ lastOp' = LastOp("cleanup", Null, FALSE, FALSE, ctl)
  /\ UNCHANGED <<scrollTop, isOpenEnv, bpVars, domVars, pureVars, stVars, fetchVars, winVars>>

\* lm-dragleave
HandleDragLeave(insideRoot) ==
  /\ ctl' = handleDragLeave(ctl, insideRoot, isOpenEnv)
  /\ openCalls' = IF insideRoot THEN openCalls ELSE NoCalls
  /\ lastOp' = LastOp("dragleave", Null, insideRoot, FALSE, ctl)
  /\ UNCHANGED <<scrollTop, isOpenEnv, bpVars, domVars, pureVars, stVars, fetchVars, winVars>>

\* The model's open state of a directory changes under the drag: a fetch
\* completes and reconciles the map.
ModelOpenStateChanges(path) ==
  /\ isOpenEnv' = IF path \in isOpenEnv THEN isOpenEnv \ {path}
                  ELSE isOpenEnv \cup {path}
  /\ lastOp' = LastOp("model", path, FALSE, FALSE, InitCtl)
  /\ UNCHANGED <<ctl, scrollTop, openCalls, bpVars, domVars, pureVars, stVars, fetchVars, winVars>>

\* The row lists the model may hold when the drop arrives: the rows of the
\* drag, or the rows after directory a was folded again.
DropRowLists == {DragRows, ServerTree(UniverseEntries, RootPath, {})}

\* PathExt.join(dir, name)
JoinPath(dir, name) == IF dir = EmptyStr THEN name ELSE dir \o <<Slash>> \o name

\* The for loop of _eventDrop over paths[i..]: the copy and rename requests
\* made to the document manager, in order.
RECURSIVE DropRequests(_, _, _, _)
DropRequests(paths, i, newDir, dropAction) ==
  IF i > Len(paths) THEN <<>>
  ELSE LET path == paths[i]
           name == Basename(path)
           newPath == JoinPath(newDir, name)
           rest == DropRequests(paths, i + 1, newDir, dropAction)
       IN IF newPath = path THEN rest
          ELSE IF dropAction = "copy"
          THEN <<[op |-> "copy", path |-> path, to |-> newDir]>> \o rest
          ELSE <<[op |-> "rename", path |-> path, to |-> newPath]>> \o rest

\* The drop target's directory, given the controller the target is read from.
dropNewDir(c, rows) ==
  LET targetPath == c.activeDropTargetPath
      targetItem == IF targetPath # Null /\ targetPath # EmptyStr
                    THEN getItemByPathIn(rows, targetPath) ELSE NullItem
  IN IF targetItem # NullItem
     THEN IF targetItem.type = "directory" THEN targetItem.path
          ELSE Dirname(targetItem.path)
     ELSE EmptyStr

\* A faulty variant: the drag session is cleaned up before the target is read.
eventDropCleansUpFirst(c, rows, open, ev) ==
  IF ev.proposedAction = "none"
  THEN [ctl |-> cleanup(c, open), dropAction |-> "none", newDir |-> EmptyStr,
        requests |-> <<>>]
  ELSE IF ~ev.hasContents
  THEN [ctl |-> cleanup(c, open), dropAction |-> "unset", newDir |-> EmptyStr,
        requests |-> <<>>]
  ELSE LET newDir == dropNewDir(cleanup(c, open), rows)
           dropAction == IF ev.ctrlKey /\ ev.proposedAction = "move"
                         THEN "copy" ELSE ev.proposedAction
       IN [ctl |-> cleanup(c, open), dropAction |-> dropAction,
           newDir |-> newDir,
           requests |-> DropRequests(ev.paths, 1, newDir, dropAction)]

\* A faulty variant: the Control key is ignored.
eventDropIgnoresCtrl(c, rows, open, ev) ==
  IF ev.proposedAction = "none"
  THEN [ctl |-> cleanup(c, open), dropAction |-> "none", newDir |-> EmptyStr,
        requests |-> <<>>]
  ELSE IF ~ev.hasContents
  THEN [ctl |-> cleanup(c, open), dropAction |-> "unset", newDir |-> EmptyStr,
        requests |-> <<>>]
  ELSE LET newDir == dropNewDir(c, rows)
           dropAction == ev.proposedAction
       IN [ctl |-> cleanup(c, open), dropAction |-> dropAction,
           newDir |-> newDir,
           requests |-> DropRequests(ev.paths, 1, newDir, dropAction)]

\* DirTreeListing._eventDrop: the controller it leaves, the event's drop
\* action ("unset" when the handler does not assign it), the destination
\* directory and the requests made.
eventDrop(c, rows, open, ev) ==
  IF ev.proposedAction = "none"
  THEN [ctl |-> cleanup(c, open), dropAction |-> "none", newDir |-> EmptyStr,
        requests |-> <<>>]
  ELSE IF ~ev.hasContents
  THEN [ctl |-> cleanup(c, open), dropAction |-> "unset", newDir |-> EmptyStr,
        requests |-> <<>>]
  ELSE LET newDir == dropNewDir(c, rows)
           dropAction == IF ev.ctrlKey /\ ev.proposedAction = "move"
                         THEN "copy" ELSE ev.proposedAction
       IN [ctl |-> cleanup(c, open), dropAction |-> dropAction,
           newDir |-> newDir,
           requests |-> DropRequests(ev.paths, 1, newDir, dropAction)]

\* The dragged paths of a drop: a file of directory a with a file of the
\* root, or a directory of the root.
DraggedPaths == { <<<<"a", "/", "a">>, <<"b">>>>, <<<<"a", "b">>>> }

\* The drop events: the proposed action, whether the payload holds contents
\* paths, the Control key, and the dragged paths.  The handler returns before
\* it reads the key and the paths when the proposed action is none or the
\* payload holds no contents paths.
DropEvents ==
  [ proposedAction : {"move", "copy", "link"}, hasContents : {TRUE},
    ctrlKey : BOOLEAN, paths : DraggedPaths ]
  \cup [ proposedAction : {"none"}, hasContents : {TRUE}, ctrlKey : {FALSE},
         paths : {<<<<"b">>>>} ]
  \cup [ proposedAction : {"move"}, hasContents : {FALSE}, ctrlKey : {FALSE},
         paths : {<<>>} ]

\* lm-drop
Drop(ev, rows) ==
  /\ LET r == eventDrop(ctl, rows, isOpenEnv, ev)
     IN /\ ctl' = r.ctl
        /\ lastOp' = [ op |-> "drop", path |-> ctl.activeDropTargetPath,
                       a |-> FALSE, b |-> FALSE, pre |-> InitCtl,
                       event |-> ev, rows |-> rows,
                       dropAction |-> r.dropAction, newDir |-> r.newDir,
                       requests |-> r.requests ]
  /\ openCalls' = NoCalls
  /\ UNCHANGED <<scrollTop, isOpenEnv, bpVars, domVars, pureVars, stVars, fetchVars, winVars>>

NextDrag ==
  \/ \E y \in PointerYs, withTarget \in BOOLEAN : UpdateDragState(y, withTarget)
  \/ SpringTimerFires
  \/ EdgeScrollFrame
  \/ Cleanup
  \/ \E ev \in DropEvents, rows \in DropRowLists : Drop(ev, rows)
  \/ \E insideRoot \in BOOLEAN : HandleDragLeave(insideRoot)
  \/ \E path \in DragDirs : ModelOpenStateChanges(path)

(***************************************************************************)
(* VirtualizationController                                                *)
(***************************************************************************)

DEFAULT_THRESHOLD == 2500

DEFAULT_ROW_HEIGHT == 24

DEFAULT_OVERSCAN_ROWS == 80

DEFAULT_MIN_ROWS == 200

\* options.name ?? default
OptionOr(options, name, default) ==
  IF name \in DOMAIN options THEN options[name] ELSE default

\* The constructor: the four private settings.
VirtualizationController(options) ==
  [ threshold |-> OptionOr(options, "threshold", DEFAULT_THRESHOLD),
    rowHeight |-> OptionOr(options, "rowHeight", DEFAULT_ROW_HEIGHT),
    overscanRows |-> OptionOr(options, "overscanRows", DEFAULT_OVERSCAN_ROWS),
    minRows |-> OptionOr(options, "minRows", DEFAULT_MIN_ROWS) ]

\* _lastRange as the field initialiser leaves it.
InitLastRange == [start |-> -1, end |-> -1]

\* The other private fields as their initialisers leave them, and the update
\* request of the listing (Widget.update) not yet processed.
InitVirt ==
  [ lastNonEmptyItems |-> <<>>,
    lastRenderedRangeStart |-> 0,
    lastRenderedVisibleCount |-> 0,
    updateRaf |-> 0,
    updateFrames |-> 0,
    updateRequested |-> FALSE ]

\* A faulty variant: a list one row short of the threshold is virtualized.
shouldVirtualizeOneEarly(cfg, itemCount) == itemCount + 1 >= cfg.threshold

shouldVirtualize(cfg, itemCount) == itemCount >= cfg.threshold

\* Math.ceil(a / b) for a >= 0, b > 0
CeilDiv(a, b) == (a + b - 1) \div b

\* A faulty variant: the first rendered row is counted back from the last row.
computeVisibleRangeFromEnd(cfg, totalItems, contentNode) ==
  IF totalItems <= 0 THEN [start |-> 0, end |-> 0]
  ELSE LET viewportHeight == Max(contentNode.clientHeight, cfg.rowHeight)
           visibleRows == Max(cfg.minRows, CeilDiv(viewportHeight, cfg.rowHeight))
           st == Max(0, contentNode.scrollTop)
           maxFirstVisible == Max(0, totalItems - 1)
           firstVisible == Min(maxFirstVisible, st \div cfg.rowHeight)
           start == Max(0, maxFirstVisible - firstVisible - cfg.overscanRows)
           unclampedEnd == Min(totalItems,
                               firstVisible + visibleRows + cfg.overscanRows)
           end == Max(start + 1, unclampedEnd)
       IN [start |-> start, end |-> end]

\* A faulty variant: the rows of the viewport are left out of the end.
computeVisibleRangeOverscanOnly(cfg, totalItems, contentNode) ==
  IF totalItems <= 0 THEN [start |-> 0, end |-> 0]
  ELSE LET st == Max(0, contentNode.scrollTop)
           maxFirstVisible == Max(0, totalItems - 1)
           firstVisible == Min(maxFirstVisible, st \div cfg.rowHeight)
           start == Max(0, firstVisible - cfg.overscanRows)
           unclampedEnd == Min(totalItems, firstVisible + cfg.overscanRows)
           end == Max(start + 1, unclampedEnd)
       IN [start |-> start, end |-> end]

\* A faulty variant: the container's height is taken as it is, also when it
\* is less than a row.
computeVisibleRangeRawHeight(cfg, totalItems, contentNode) ==
  IF totalItems <= 0 THEN [start |-> 0, end |-> 0]
  ELSE LET viewportHeight == contentNode.clientHeight
           visibleRows == Max(cfg.minRows, CeilDiv(viewportHeight, cfg.rowHeight))
           st == Max(0, contentNode.scrollTop)
           maxFirstVisible == Max(0, totalItems - 1)
           firstVisible == Min(maxFirstVisible, st \div cfg.rowHeight)
           start == Max(0, firstVisible - cfg.overscanRows)
           unclampedEnd == Min(totalItems,
                               firstVisible + visibleRows + cfg.overscanRows)
           end == Max(start + 1, unclampedEnd)
       IN [start |-> start, end |-> end]

\* The range computeVisibleRange returns (and stores in _lastRange).
computeVisibleRange(cfg, totalItems, contentNode) ==
  IF totalItems <= 0 THEN [start |-> 0, end |-> 0]
  ELSE LET viewportHeight == Max(contentNode.clientHeight, cfg.rowHeight)
           visibleRows == Max(cfg.minRows, CeilDiv(viewportHeight, cfg.rowHeight))
           st == Max(0, contentNode.scrollTop)
           maxFirstVisible == Max(0, totalItems - 1)
           firstVisible == Min(maxFirstVisible, st \div cfg.rowHeight)
           start == Max(0, firstVisible - cfg.overscanRows)
           unclampedEnd == Min(totalItems,
                               firstVisible + visibleRows + cfg.overscanRows)
           end == Max(start + 1, unclampedEnd)
       IN [start |-> start, end |-> end]

\* allItems.slice(start, end)
Slice(seq, start, end) == SubSeq(seq, start + 1, Min(end, Len(seq)))

\* A faulty variant: the bottom spacer is one row too high.
computeWindowTallBottom(cfg, rows, contentNode) ==
  IF ~shouldVirtualize(cfg, Len(rows))
  THEN [ allItems |-> rows, visibleItems |-> rows, rangeStart |-> 0,
         topPx |-> 0, bottomPx |-> 0, virtualized |-> FALSE,
         lastRange |-> InitLastRange ]
  ELSE LET range == computeVisibleRange(cfg, Len(rows), contentNode)
       IN [ allItems |-> rows,
            visibleItems |-> Slice(rows, range.start, range.end),
            rangeStart |-> range.start,
            topPx |-> range.start * cfg.rowHeight,
            bottomPx |-> Max(0, Len(rows) - range.end + 1) * cfg.rowHeight,
            virtualized |-> TRUE,
            lastRange |-> range ]

\* The window computeWindow returns, and the _lastRange it leaves.
computeWindow(cfg, rows, contentNode) ==
  IF ~shouldVirtualize(cfg, Len(rows))
  THEN [ allItems |-> rows, visibleItems |-> rows, rangeStart |-> 0,
         topPx |-> 0, bottomPx |-> 0, virtualized |-> FALSE,
         lastRange |-> InitLastRange ]
  ELSE LET range == computeVisibleRange(cfg, Len(rows), contentNode)
       IN [ allItems |-> rows,
            visibleItems |-> Slice(rows, range.start, range.end),
            rangeStart |-> range.start,
            topPx |-> range.start * cfg.rowHeight,
            bottomPx |-> Max(0, Len(rows) - range.end) * cfg.rowHeight,
            virtualized |-> TRUE,
            lastRange |-> range ]

(***************************************************************************)
(* SpecWin: a controller, a row list and a container that change, and the  *)
(* window computed from them                                               *)
(***************************************************************************)

MaxRows == 6

\* The row lists: rows are told apart by their number.
RowLists == {[i \in 1..n |-> i] : n \in 0..MaxRows}

NoOptions == [name \in {} |-> 0]

ControllerOptions ==
  {NoOptions}
  \cup [threshold : {0, 3, 5}, rowHeight : {1, 2}, overscanRows : {0, 1},
        minRows : {1, 2}]
  \cup {[threshold |-> t] : t \in {4, MaxRows + 1}}
  \cup {[threshold |-> 0, rowHeight |-> 2, overscanRows |-> 1, minRows |-> 0]}

ClientHeights == {0, 3, 5}

ScrollTops == {0, 1, 4, 9}

ContentNode(clientHeight, st) == [clientHeight |-> clientHeight, scrollTop |-> st]

\* No window computed yet.  changedSince tells whether the rows or the
\* scroll position changed since the window was rendered.
NoWindow ==
  [ computed |-> FALSE, contentNode |-> ContentNode(0, 0),
    changedSince |-> FALSE,
    result |-> [ allItems |-> <<>>, visibleItems |-> <<>>, rangeStart |-> 0,
                 topPx |-> 0, bottomPx |-> 0, virtualized |-> FALSE,
                 lastRange |-> InitLastRange ] ]

InitWin ==
  /\ vcfg \in {VirtualizationController(o) : o \in ControllerOptions}
  /\ allItems = <<>>
  /\ geom = ContentNode(0, 0)
  /\ win = NoWindow
  /\ lastRange = InitLastRange
  /\ virt = InitVirt

\* The model's rows change.
SetItems(rows) ==
  /\ allItems' = rows
  /\ UNCHANGED <<vcfg, geom, win, lastRange, virt, bpVars, domVars, pureVars, stVars, fetchVars,
                 dragVars>>

\* The container is resized.
Resize(clientHeight) ==
  /\ geom' = [geom EXCEPT !.clientHeight = clientHeight]
  /\ UNCHANGED <<vcfg, allItems, win, lastRange, virt, bpVars, domVars, pureVars, stVars, fetchVars,
                 dragVars>>

\* The container is scrolled.
Scroll(st) ==
  /\ geom' = [geom EXCEPT !.scrollTop = st]
  /\ UNCHANGED <<vcfg, allItems, win, lastRange, virt, bpVars, domVars, pureVars, stVars, fetchVars,
                 dragVars>>

\* computeWindow(allItems, contentNode)
ComputeWindow ==
  /\ LET w == computeWindow(vcfg, allItems, geom)
     IN /\ win' = [computed |-> TRUE, contentNode |-> geom,
                   changedSince |-> FALSE, result |-> w]
        /\ lastRange' = w.lastRange
  /\ UNCHANGED <<vcfg, allItems, geom, virt, bpVars, domVars, pureVars, stVars, fetchVars, dragVars>>

NextWin ==
  \/ \E rows \in RowLists : SetItems(rows)
  \/ \E h \in ClientHeights : Resize(h)
  \/ \E st \in ScrollTops : Scroll(st)
  \/ ComputeWindow

(***************************************************************************)
(* SpecScroll: the listing's scroll handling.  A scroll event schedules a  *)
(* frame callback, the callback requests an update of the listing when the *)
(* visible range moved, and the update renders the window.                 *)
(***************************************************************************)

\* A faulty variant: the latest list is returned even when it is empty.
resolveAllItemsLatest(v, latestItems) ==
  [virt |-> IF Len(latestItems) > 0
            THEN [v EXCEPT !.lastNonEmptyItems = latestItems] ELSE v,
   items |-> latestItems]

\* resolveAllItems: the items to show, and the controller it leaves.
resolveAllItems(v, latestItems) ==
  LET v1 == IF Len(latestItems) > 0
            THEN [v EXCEPT !.lastNonEmptyItems = latestItems] ELSE v
  IN [virt |-> v1,
      items |-> IF Len(latestItems) > 0 THEN latestItems
                ELSE v1.lastNonEmptyItems]

\* scheduleUpdate, up to the frame request.
\* updateFrames counts the callbacks the browser holds, registered and
\* neither run nor cancelled.
requestUpdateFrame(v) == [v EXCEPT !.updateRaf = 1, !.updateFrames = @ + 1]

scheduleUpdate(v) == IF v.updateRaf # 0 THEN v ELSE requestUpdateFrame(v)

\* A faulty variant: the frame of the window recompute is left pending.
cancelUpdateKeepsFrame(v) == v

cancelUpdate(v) ==
  IF v.updateRaf # 0
  THEN [v EXCEPT !.updateRaf = 0, !.updateFrames = IF @ > 0 THEN @ - 1 ELSE 0]
  ELSE v

\* clearSpacers (the reset of _lastRange is in onUpdateRequest below).
clearSpacers(v) ==
  cancelUpdate([v EXCEPT !.lastRenderedRangeStart = 0,
                         !.lastRenderedVisibleCount = 0])

setRenderedWindow(v, rangeStart, visibleCount) ==
  [v EXCEPT !.lastRenderedRangeStart = rangeStart,
            !.lastRenderedVisibleCount = visibleCount]

\* A faulty variant: the callback compares with the range computed last.
FrameOutcomeAgainstComputed(v, nextRange) ==
  LET requested == nextRange # lastRange
  IN [virt |-> IF requested THEN [v EXCEPT !.updateRequested = TRUE] ELSE v,
      lastRange |-> nextRange,
      requested |-> requested]

\* The comparison of the frame callback, given the range it computed;
\* requested tells whether it called requestUpdate.
FrameOutcome(v, nextRange) ==
  LET renderedEnd == v.lastRenderedRangeStart + v.lastRenderedVisibleCount
      requested == \/ nextRange.start # v.lastRenderedRangeStart
                   \/ nextRange.end # renderedEnd
  IN [virt |-> IF requested THEN [v EXCEPT !.updateRequested = TRUE] ELSE v,
      lastRange |-> nextRange,
      requested |-> requested]

\* A faulty variant: the callback takes the scroll position of the last
\* rendering instead of the container's.
updateFrameStaleScroll(v, cfg, latestItems, contentNode, renderedNode) ==
  LET v0 == [v EXCEPT !.updateRaf = 0, !.updateFrames = @ - 1]
      r == resolveAllItems(v0, latestItems)
  IN FrameOutcome(r.virt, computeVisibleRange(cfg, Len(r.items), renderedNode))

\* The frame callback of scheduleUpdate; renderedNode is the container as it
\* was at the last rendering, which the callback does not read.
updateFrame(v, cfg, latestItems, contentNode, renderedNode) ==
  LET v0 == [v EXCEPT !.updateRaf = 0, !.updateFrames = @ - 1]
      r == resolveAllItems(v0, latestItems)
  IN FrameOutcome(r.virt, computeVisibleRange(cfg, Len(r.items), contentNode))

\* DirTreeListing.onUpdateRequest: the window rendered and the controller
\* left.
onUpdateRequest(v, cfg, latestItems, contentNode) ==
  LET r == resolveAllItems([v EXCEPT !.updateRequested = FALSE], latestItems)
      w == computeWindow(cfg, r.items, contentNode)
  IN [window |-> w,
      lastRange |-> w.lastRange,
      virt |-> IF ~w.virtualized THEN clearSpacers(r.virt)
               ELSE setRenderedWindow(r.virt, w.rangeStart, Len(w.visibleItems))]

\* The settings of the scrolled listings: lists of 3 rows and more are
\* virtualized.
ScrollOptions ==
  [threshold : {3}, rowHeight : {1, 2}, overscanRows : {0, 1}, minRows : {1, 2}]

\* The row lists of the scrolled listings: none, one below the threshold and
\* the longest.
ScrollRowLists == {rows \in RowLists : Len(rows) \in {0, 2, MaxRows}}

\* The container keeps the height it starts with.
InitScroll ==
  /\ vcfg \in {VirtualizationController(o) : o \in ScrollOptions}
  /\ allItems = <<>>
  /\ geom \in {ContentNode(h, 0) : h \in ClientHeights}
  /\ win = NoWindow
  /\ lastRange = InitLastRange
  /\ virt = InitVirt

\* The model's rows change and the listing is asked to update, as it is on
\* every refresh of the model.
ModelRefreshed(rows) ==
  /\ allItems' = rows
  /\ virt' = [virt EXCEPT !.updateRequested = TRUE]
  /\ win' = [win EXCEPT !.changedSince = @ \/ rows # allItems]
  /\ UNCHANGED <<vcfg, geom, lastRange, bpVars, domVars, pureVars, stVars, fetchVars, dragVars>>

\* The container is scrolled and handleEvent receives its 'scroll' event.
ScrollEvent(st) ==
  /\ geom' = [geom EXCEPT !.scrollTop = st]
  /\ LET r == resolveAllItems(virt, allItems)
     IN virt' = IF shouldVirtualize(vcfg, Len(r.items))
                THEN scheduleUpdate(r.virt) ELSE r.virt
  /\ lastOp' = LastOp("scroll", Null, FALSE, virt.updateFrames > 0, InitCtl)
  /\ win' = [win EXCEPT !.changedSince = @ \/ st # geom.scrollTop]
  /\ UNCHANGED <<vcfg, allItems, lastRange, bpVars, domVars, pureVars, stVars, fetchVars,
                 ctl, scrollTop, isOpenEnv, openCalls>>

\* The animation frame requested by scheduleUpdate runs.  The record of the
\* operation tells whether the callback called requestUpdate and whether
\* the rows and the scroll position were unchanged since the last rendering.
UpdateFrame ==
  /\ virt.updateFrames > 0
  /\ LET r == updateFrame(virt, vcfg, allItems, geom, win.contentNode)
     IN /\ virt' = r.virt /\ lastRange' = r.lastRange
        /\ lastOp' = LastOp("recompute", Null, r.requested,
                            win.computed /\ ~win.changedSince, InitCtl)
  /\ UNCHANGED <<vcfg, allItems, geom, win, bpVars, domVars, pureVars, stVars, fetchVars,
                 ctl, scrollTop, isOpenEnv, openCalls>>

\* The listing processes an update request: the one the frame callback or a
\* refresh of the model made, or one of the host's.
UpdateRequest ==
  /\ LET r == onUpdateRequest(virt, vcfg, allItems, geom)
     IN /\ virt' = r.virt
        /\ lastRange' = r.lastRange
        /\ win' = [computed |-> TRUE, contentNode |-> geom,
                   changedSince |-> FALSE, result |-> r.window]
  /\ UNCHANGED <<vcfg, allItems, geom, bpVars, domVars, pureVars, stVars, fetchVars, dragVars>>

NextScroll ==
  \/ \E rows \in ScrollRowLists : ModelRefreshed(rows)
  \/ \E st \in ScrollTops : ScrollEvent(st)
  \/ UpdateFrame
  \/ UpdateRequest

(***************************************************************************)
(* Detaching the listing (SpecDetach): the drag controller and the         *)
(* virtualization controller of one listing, side by side.  The scroll     *)
(* position the auto-scroll writes and the one the window is computed from *)
(* are kept apart as in the sections above; a scroll event may report any  *)
(* position.                                                               *)
(***************************************************************************)

\* The settings of the detached listing: lists of 3 rows and more are
\* virtualized.
DetachOptions == [threshold |-> 3, rowHeight |-> 1, overscanRows |-> 0, minRows |-> 1]

\* The row lists of the detached listing: the longest.
DetachRowLists == {rows \in RowLists : Len(rows) = MaxRows}

\* The positions its scroll events report.
DetachScrollTops == {0, 4}

InitDetach ==
  /\ InitDrag
  /\ vcfg = VirtualizationController(DetachOptions)
  /\ allItems = <<>>
  /\ geom = ContentNode(3, 0)
  /\ win = NoWindow
  /\ lastRange = InitLastRange
  /\ virt = InitVirt

\* DirTreeListing.onBeforeDetach
Detach ==
  /\ ctl' = cleanup(ctl, isOpenEnv)
  /\ openCalls' = NoCalls
  /\ lastOp' = LastOp("detach", Null, ctl.edgeScrollRaf # 0, virt.updateRaf # 0, ctl)
  /\ virt' = cancelUpdate(virt)
  /\ UNCHANGED <<scrollTop, isOpenEnv, vcfg, allItems, geom, win, lastRange,
                 bpVars, domVars, pureVars, stVars, fetchVars>>

NextDetach ==
  \/ \E y \in PointerYs : UpdateDragState(y, TRUE)
  \/ SpringTimerFires
  \/ EdgeScrollFrame
  \/ Cleanup
  \/ Detach
  \/ \E rows \in DetachRowLists : ModelRefreshed(rows)
  \/ \E st \in DetachScrollTops : ScrollEvent(st)
  \/ UpdateFrame
  \/ UpdateRequest

(***************************************************************************)
(* SpecFold: cd and toggle one after the other.  No call starts before the *)
(* fetch of the call before it has resolved, so one action is a call and   *)
(* its whole fetch, by the tree endpoint or, when that fails, by the       *)
(* fallback.  fetches keeps what the calls did.                            *)
(***************************************************************************)

\* Calls in one run.
MaxFoldCalls == 4

\* The strategies that complete a fetch.
FoldSources == {"server", "contents"}

\* The paths cd is called with: the root and two directories to reveal.
FoldCdPaths == {RootPath, <<"/", "a">>, <<"/", "a", "/", "b">>}

\* fetchWithFallback run to completion with nothing else in between.
fetchContent(t, os, pathToUpdate, source) ==
  IF source = "server" THEN fetchViaServer(t, os, RootPath, pathToUpdate)
  ELSE fetchViaContents(t, os, RootPath, pathToUpdate)

InitFold ==
  /\ tree = UniverseEntries
  /\ openState = EmptyCache
  /\ items = <<>>
  /\ fetches = <<>>
  /\ requestCounter = 0
  /\ directoryCache = EmptyCache

\* What a call did: its origin, the strategy that answered, and the map and
\* rows before the call and after its fetch.
FoldRecord(origin, source, r) ==
  [ origin |-> origin, source |-> source,
    before |-> [os |-> openState, rows |-> items],
    after |-> [os |-> r.os, rows |-> r.items] ]

\* cd(pathToUpdate) and its fetch.
FoldCd(pathToUpdate, source) ==
  /\ requestCounter < MaxFoldCalls
  /\ requestCounter' = requestCounter + 1
  /\ LET r == fetchContent(tree, openState, pathToUpdate, source)
     IN /\ openState' = r.os
        /\ items' = r.items
        /\ fetches' = Append(fetches,
                        FoldRecord([op |-> "cd", path |-> pathToUpdate,
                                    wasOpen |-> FALSE], source, r))
  /\ UNCHANGED <<tree, directoryCache, bpVars, domVars, pureVars, stVars, dragVars, winVars>>

\* toggle(pathToToggle) and the fetch of its cd(rootPath).
FoldToggle(pathToToggle, source) ==
  /\ requestCounter < MaxFoldCalls
  /\ requestCounter' = requestCounter + 1
  /\ LET os1 == SetKey(openState, pathToToggle, ~isOpen(openState, pathToToggle))
         r == fetchContent(tree, os1, RootPath, source)
     IN /\ openState' = r.os
        /\ items' = r.items
        /\ fetches' = Append(fetches,
                        FoldRecord([op |-> "toggle", path |-> pathToToggle,
                                    wasOpen |-> isOpen(openState, pathToToggle)],
                                   source, r))
  /\ UNCHANGED <<tree, directoryCache, bpVars, domVars, pureVars, stVars, dragVars, winVars>>

NextFold ==
  \/ \E p \in FoldCdPaths, source \in FoldSources : FoldCd(p, source)
  \/ \E p \in TogglePaths, source \in FoldSources : FoldToggle(p, source)

(***************************************************************************)
(* SpecDom: the row nodes of the listing.  dom.items is the listing's      *)
(* array of row nodes: slot i holds the path the node is bound to (its     *)
(* data-path attribute) and whether it carries the class jp-mod-dropTarget.*)
(* dom.children is the list of the container's children: the two spacers   *)
(* and the row nodes, each named by its slot.  The drag events name the    *)
(* row node under the pointer.                                             *)
(***************************************************************************)

TopSpacer == [kind |-> "topSpacer", slot |-> 0]

BottomSpacer == [kind |-> "bottomSpacer", slot |-> 0]

RowNode(i) == [kind |-> "row", slot |-> i]

NoDom == [items |-> <<>>, children |-> <<>>]

DomIdle == dom = NoDom

\* No function applied.
NoCall == [done |-> FALSE]

PureIdle == pure = NoCall

\* contentNode.removeChild(node), for a node that may not be a child
RemoveChild(children, node) ==
  SelectSeq(children, LAMBDA c : c # node)

\* applySpacers, on the children of the container: the top spacer is put
\* first and the bottom spacer last.
applySpacers(children) ==
  LET rest == RemoveChild(RemoveChild(children, TopSpacer), BottomSpacer)
  IN <<TopSpacer>> \o rest \o <<BottomSpacer>>

\* clearSpacers, on the children of the container.
removeSpacers(children) ==
  RemoveChild(RemoveChild(children, TopSpacer), BottomSpacer)

\* renderer.createItemNode: a node bound to no path yet.
createItemNode == [path |-> Undefined, marked |-> FALSE]

\* FileTreeRenderer.updateItemNode, as far as the attributes above go.
updateItemNode(node, model) == [node EXCEPT !.path = model.path]

\* while (nodes.length > n) content.removeChild(nodes.pop())
RECURSIVE removeExcessNodes(_, _)
removeExcessNodes(d, n) ==
  IF Len(d.items) > n
  THEN removeExcessNodes(
         [items |-> SubSeq(d.items, 1, Len(d.items) - 1),
          children |-> RemoveChild(d.children, RowNode(Len(d.items)))], n)
  ELSE d

\* content.insertBefore(node, bottomSpacer)
InsertBeforeBottom(children, node) ==
  LET k == CHOOSE i \in 1..Len(children) : children[i] = BottomSpacer
  IN SubSeq(children, 1, k - 1) \o <<node>> \o SubSeq(children, k, Len(children))

\* A faulty variant: a missing node is appended after the bottom spacer.
RECURSIVE addMissingNodesAtEnd(_, _)
addMissingNodesAtEnd(d, n) ==
  IF Len(d.items) < n
  THEN addMissingNodesAtEnd(
         [items |-> Append(d.items, createItemNode),
          children |-> Append(d.children, RowNode(Len(d.items) + 1))], n)
  ELSE d

\* while (nodes.length < n): a node is created, pushed, and inserted before
\* the bottom spacer when that is a child of the container.
RECURSIVE addMissingNodes(_, _)
addMissingNodes(d, n) ==
  IF Len(d.items) < n
  THEN LET node == RowNode(Len(d.items) + 1)
           hasBottom == \E i \in 1..Len(d.children) : d.children[i] = BottomSpacer
       IN addMissingNodes(
            [items |-> Append(d.items, createItemNode),
             children |-> IF hasBottom THEN InsertBeforeBottom(d.children, node)
                          ELSE Append(d.children, node)], n)
  ELSE d

\* updateNodes(items, nodes): node i is painted with item i.
updateNodes(rows, nodes) ==
  [i \in 1..Len(nodes) |->
     IF i <= Len(rows) THEN updateItemNode(nodes[i], rows[i]) ELSE nodes[i]]

\* The virtualized branch of onUpdateRequest on the nodes.
renderVirtualWindow(d, w) ==
  LET d1 == [d EXCEPT !.children = applySpacers(@)]
      d2 == removeExcessNodes(d1, Len(w.visibleItems))
      d3 == addMissingNodes(d2, Len(w.visibleItems))
  IN [d3 EXCEPT !.items = updateNodes(w.visibleItems, @)]

\* The other branch: clearSpacers, then the update of the base listing,
\* which keeps one node per row of the whole list, appended to the container.
renderWholeList(d, rows) ==
  LET d1 == [d EXCEPT !.children = removeSpacers(@)]
      d2 == removeExcessNodes(d1, Len(rows))
      d3 == addMissingNodes(d2, Len(rows))
  IN [d3 EXCEPT !.items = updateNodes(rows, @)]

\* contentNode.querySelector('.jp-DirListing-item[data-path="..."]'): the
\* slot of the first row node bound to the path, 0 when there is none.
querySelector(nodes, path) ==
  IF \E i \in 1..Len(nodes) : nodes[i].path = path
  THEN CHOOSE i \in 1..Len(nodes) :
         nodes[i].path = path /\ \A j \in 1..(i - 1) : nodes[j].path # path
  ELSE 0

SetMarked(nodes, slot, value) ==
  IF slot = 0 THEN nodes ELSE [nodes EXCEPT ![slot].marked = value]

\* setDropTargetPath, on the nodes: the class is taken from the node bound to
\* the previous path and given to the node bound to the new one.
setDropTargetClass(nodes, previousPath, path) ==
  IF previousPath = path THEN nodes
  ELSE LET n1 == IF Truthy(previousPath) /\ previousPath # Null
                 THEN SetMarked(nodes, querySelector(nodes, previousPath), FALSE)
                 ELSE nodes
       IN IF path = Null \/ ~Truthy(path) THEN n1
          ELSE SetMarked(n1, querySelector(n1, path), TRUE)

\* Lists of 3 rows and more are virtualized; the container shows 2 rows.
DomOptions == [threshold |-> 3, rowHeight |-> 1, overscanRows |-> 0, minRows |-> 1]

\* The row lists of the model: none, the first two rows, all rows.
DomRowLists == {<<>>, SubSeq(DragRows, 1, 2), DragRows}

DomScrollTops == {0, 4}

\* The slots a drag event may name; slot 0 stands for no row node.
DomSlots == 0..2

InitDom ==
  /\ InitDrag
  /\ vcfg = VirtualizationController(DomOptions)
  /\ allItems = <<>>
  /\ geom = ContentNode(2, 0)
  /\ win = NoWindow
  /\ lastRange = InitLastRange
  /\ virt = InitVirt
  /\ dom = NoDom

\* lm-dragenter / lm-dragover with the pointer on the row node of a slot, or
\* (slot 0) on no row node.
DomDragOver(slot) ==
  /\ slot <= Len(dom.items)
  /\ LET target == IF slot = 0 THEN Null ELSE dom.items[slot].path
         clientY == IF slot = 0 THEN RectTop - 5 ELSE RectTop + 30
     IN ctl' = updateDragState(ctl, PointerX, clientY, target, isOpenEnv, scrollTop)
  /\ dom' = [dom EXCEPT !.items =
               setDropTargetClass(@, ctl.activeDropTargetPath,
                                  ctl'.activeDropTargetPath)]
  /\ lastOp' = [ op |-> "update", path |-> ctl'.activeDropTargetPath,
                 a |-> ctl'.activeDropTargetPath # ctl.activeDropTargetPath,
                 b |-> ctl.timerPending, pre |-> InitCtl,
                 hadFrame |-> ctl.edgeFrames > 0 ]
  /\ UNCHANGED <<scrollTop, isOpenEnv, openCalls, bpVars, stVars, fetchVars, winVars,
                 pureVars>>

\* lm-drop, onBeforeDetach: cleanup on the controller and the nodes.
DomCleanup ==
  /\ ctl' = cleanup(ctl, isOpenEnv)
  /\ dom' = [dom EXCEPT !.items =
               setDropTargetClass(@, ctl.activeDropTargetPath, Null)]
  /\ openCalls' = NoCalls
  /\ lastOp' = LastOp("cleanup", Null, FALSE, FALSE, ctl)
  /\ UNCHANGED <<scrollTop, isOpenEnv, bpVars, stVars, fetchVars, winVars, pureVars>>

\* The listing processes an update request and repaints its nodes.  The
\* record of the operation tells whether the update was virtualized and
\* whether it found one row node between the spacers.
DomUpdateRequest ==
  /\ LET r == onUpdateRequest(virt, vcfg, allItems, geom)
     IN /\ virt' = r.virt
        /\ lastRange' = r.lastRange
        /\ win' = [computed |-> TRUE, contentNode |-> geom,
                   changedSince |-> FALSE, result |-> r.window]
        /\ dom' = IF r.window.virtualized
                  THEN renderVirtualWindow(dom, r.window)
                  ELSE renderWholeList(dom, allItems)
        /\ lastOp' = LastOp("render", Null, r.window.virtualized,
                            Len(dom.items) = 1 /\ Len(dom.children) = 3, InitCtl)
  /\ UNCHANGED <<vcfg, allItems, geom, ctl, scrollTop, isOpenEnv, openCalls,
                 bpVars, stVars, fetchVars, pureVars>>

\* The model's rows change and the listing is asked to update.
DomModelRefreshed(rows) ==
  /\ items' = rows
  /\ allItems' = rows
  /\ virt' = [virt EXCEPT !.updateRequested = TRUE]
  /\ win' = [win EXCEPT !.changedSince = @ \/ rows # allItems]
  /\ lastOp' = LastOp("model", Null, FALSE, FALSE, InitCtl)
  /\ UNCHANGED <<vcfg, geom, lastRange, dom, ctl, scrollTop, isOpenEnv, openCalls,
                 tree, openState, fetches, requestCounter, directoryCache,
                 bpVars, stVars, pureVars>>

NextDom ==
  \/ \E slot \in DomSlots : DomDragOver(slot)
  \/ SpringTimerFires
  \/ DomCleanup
  \/ \E rows \in DomRowLists : DomModelRefreshed(rows)
  \/ \E st \in DomScrollTops : ScrollEvent(st)
  \/ UpdateFrame
  \/ DomUpdateRequest

(***************************************************************************)
(* SpecEdge: computeEdgeScrollVelocity on drawn rectangles and pointers    *)
(***************************************************************************)

\* The rectangles: one lower than two zones, one as high as two zones, one
\* higher; each at the top of the window and 10 pixels below it.
EdgeRectTops == {0, 10}

EdgeRectHeights == {20, 2 * EDGE_SCROLL_ZONE_PX, 72}

\* The pointer goes from EdgeMargin pixels above the rectangle to EdgeMargin
\* pixels below it.
EdgeMargin == 2

InitEdge ==
  \E top \in EdgeRectTops, h \in EdgeRectHeights :
    \E y \in (top - EdgeMargin)..(top + h + EdgeMargin) :
      pure = [done |-> FALSE, rect |-> [top |-> top, bottom |-> top + h],
              clientY |-> y, velocity |-> 0]

ComputeEdgeScrollVelocity ==
  /\ ~pure.done
  /\ pure' = [pure EXCEPT !.done = TRUE,
                          !.velocity = edgeScrollVelocity(pure.rect, pure.clientY)]
  /\ UNCHANGED <<bpVars, stVars, fetchVars, dragVars, winVars, domVars>>

NextEdge == ComputeEdgeScrollVelocity

(***************************************************************************)
(* SpecCache: the directory cache.  The fallback traversals ask            *)
(* getDirectoryContents for listings, the contents manager answers each    *)
(* request some time after it was made, and file changes and forced        *)
(* refreshes clear the cache in between.  fetches keeps one record per     *)
(* call and per clearing, in the order they happened.                      *)
(***************************************************************************)

\* Calls and clearings in one run.
MaxCacheOps == 5

\* The directories the traversals list.
CachePaths == {RootPath, <<"a">>}

\* Whether a record is a listing request.
IsRequest(f) == f.op = "get" /\ f.phase # "hit"

\* getDirectoryContents(path) up to its first suspension: a cached listing is
\* returned, otherwise the request to the contents manager is made.  The
\* record of a request holds the content the manager read for it, and
\* `before` turns true when the cache is cleared while the request is out;
\* the record of a call served from the cache holds the listing returned
\* and the `before` of the request that stored it.
GetDirectoryContents(path) ==
  /\ Len(fetches) < MaxCacheOps
  /\ IF path \in DOMAIN directoryCache
     THEN /\ fetches' = Append(fetches,
                          [op |-> "get", path |-> path, phase |-> "hit",
                           before |-> \E k \in DOMAIN fetches :
                                        /\ fetches[k].op = "get"
                                        /\ fetches[k].phase = "stored"
                                        /\ fetches[k].path = path
                                        /\ fetches[k].before,
                           content |-> directoryCache[path]])
          /\ UNCHANGED requestCounter
     ELSE /\ fetches' = Append(fetches,
                          [op |-> "get", path |-> path, phase |-> "requested",
                           before |-> FALSE, content |-> RawContent(tree, path)])
          /\ requestCounter' = requestCounter + 1
  /\ UNCHANGED <<tree, openState, items, directoryCache, bpVars, stVars, dragVars,
                 winVars, domVars, pureVars>>

\* this._directoryCache.set(path, sortedContent), for the answer to request f
storeListing(cache, f) ==
  [p \in DOMAIN cache \cup {f.path} |->
     IF p = f.path THEN sortContents(f.content) ELSE cache[p]]

\* getDirectoryContents resumed with the manager's answer to request i: the
\* sorted content is stored and returned.  The record that stored the
\* path's listing before, if any, is marked overwritten, and the clearings
\* of the log are marked past.
ListingResolves(i) ==
  /\ fetches[i].op = "get" /\ fetches[i].phase = "requested"
  /\ directoryCache' = storeListing(directoryCache, fetches[i])
  /\ fetches' =
       [j \in DOMAIN fetches |->
          IF j = i THEN [fetches[j] EXCEPT !.phase = "stored"]
          ELSE IF fetches[j].op = "get" /\ fetches[j].phase = "stored"
                  /\ fetches[j].path = fetches[i].path
          THEN [fetches[j] EXCEPT !.phase = "overwritten"]
          ELSE IF fetches[j].op # "get"
          THEN [fetches[j] EXCEPT !.phase = "past"]
          ELSE fetches[j]]
  /\ UNCHANGED <<tree, openState, items, requestCounter, bpVars, stVars, dragVars,
                 winVars, domVars, pureVars>>

\* clearDirectoryCache
clearDirectoryCache(cache) == EmptyCache

\* The log after a clearing: the requests that are out were made before it,
\* the listings stored are gone.
AfterClearing(log, op) ==
  Append([j \in DOMAIN log |->
            IF log[j].op = "get" /\ log[j].phase = "requested"
            THEN [log[j] EXCEPT !.before = TRUE]
            ELSE IF log[j].op = "get" /\ log[j].phase = "stored"
            THEN [log[j] EXCEPT !.phase = "cleared"]
            ELSE log[j]],
         [op |-> op, path |-> Null, phase |-> "cleared", before |-> FALSE,
          content |-> <<>>])

\* onFileChanged: the file system changed to newTree; the cache is cleared
\* and the model refreshed.
FileChanged(newTree) ==
  /\ Len(fetches) < MaxCacheOps
  /\ tree' = newTree
  /\ directoryCache' = clearDirectoryCache(directoryCache)
  /\ fetches' = AfterClearing(fetches, "fileChanged")
  /\ UNCHANGED <<openState, items, requestCounter, bpVars, stVars, dragVars,
                 winVars, domVars, pureVars>>

\* cd('.'), up to the request of the tree endpoint.
ForcedRefresh ==
  /\ Len(fetches) < MaxCacheOps
  /\ directoryCache' = clearDirectoryCache(directoryCache)
  /\ fetches' = AfterClearing(fetches, "refresh")
  /\ UNCHANGED <<tree, openState, items, requestCounter, bpVars, stVars, dragVars,
                 winVars, domVars, pureVars>>

InitCache ==
  /\ tree \in FetchTrees
  /\ openState = EmptyCache
  /\ items = <<>>
  /\ fetches = <<>>
  /\ requestCounter = 0
  /\ directoryCache = EmptyCache

NextCache ==
  \/ \E path \in CachePaths : GetDirectoryContents(path)
  \/ \E i \in DOMAIN fetches : ListingResolves(i)
  \/ \E newTree \in FetchTrees : FileChanged(newTree)
  \/ ForcedRefresh

(***************************************************************************)
(* SpecSort: sortContents on drawn listings                                *)
(***************************************************************************)

\* Entries of a listing.
MaxListing == 3

\* The entries the listings are drawn from: names that differ in case, in
\* length and in their first character, as directories and as files.
SortNames == {<<"B">>, <<"a">>, <<"a", "b">>, <<"b">>}

SortEntries == {Entry(n, t) : n \in SortNames, t \in {"directory", "file"}}

InitSort ==
  \E n \in 0..MaxListing :
    \E data \in [1..n -> SortEntries] :
      pure = [done |-> FALSE, data |-> data, out |-> <<>>]

SortContents ==
  /\ ~pure.done
  /\ pure' = [pure EXCEPT !.done = TRUE, !.out = sortContents(pure.data)]
  /\ UNCHANGED <<bpVars, stVars, fetchVars, dragVars, winVars, domVars>>

NextSort == SortContents

\*__SPECS__
ModelIdle ==
  /\ tree = {} /\ openState = EmptyCache /\ fetches = <<>>
  /\ requestCounter = 0 /\ directoryCache = EmptyCache

FetchIdle == ModelIdle /\ items = <<>>

\* The model of a listing under a drag holds the rows of the drag.
DragModel == ModelIdle /\ items = DragRows

DragIdle ==
  /\ ctl = InitCtl /\ scrollTop = 0 /\ isOpenEnv = {} /\ openCalls = NoCalls
  /\ lastOp = LastOp("none", Null, FALSE, FALSE, InitCtl)

WinIdle ==
  /\ vcfg = VirtualizationController(NoOptions) /\ allItems = <<>>
  /\ geom = ContentNode(0, 0) /\ win = NoWindow /\ lastRange = InitLastRange
  /\ virt = InitVirt

InitPathsAll == InitPaths /\ StIdle /\ FetchIdle /\ DragIdle /\ WinIdle /\ DomIdle /\ PureIdle

SpecPaths == InitPathsAll /\ [][NextPaths]_vars

InitStratAll == InitStrat /\ BpIdle /\ FetchIdle /\ DragIdle /\ WinIdle /\ DomIdle /\ PureIdle

SpecStrat == InitStratAll /\ [][NextStrat]_vars

InitFetchAll == InitFetch /\ BpIdle /\ StIdle /\ DragIdle /\ WinIdle /\ DomIdle /\ PureIdle

SpecFetch == InitFetchAll /\ [][NextFetch]_vars

InitWinAll == InitWin /\ BpIdle /\ StIdle /\ FetchIdle /\ DragIdle /\ DomIdle /\ PureIdle

SpecWin == InitWinAll /\ [][NextWin]_vars

InitDragAll == InitDrag /\ BpIdle /\ StIdle /\ DragModel /\ WinIdle /\ DomIdle /\ PureIdle

SpecDrag == InitDragAll /\ [][NextDrag]_vars

InitScrollAll == InitScroll /\ BpIdle /\ StIdle /\ FetchIdle /\ DragIdle /\ DomIdle /\ PureIdle

SpecScroll == InitScrollAll /\ [][NextScroll]_vars

InitDetachAll == InitDetach /\ BpIdle /\ StIdle /\ DragModel /\ DomIdle /\ PureIdle

SpecDetach == InitDetachAll /\ [][NextDetach]_vars

InitFoldAll == InitFold /\ BpIdle /\ StIdle /\ DragIdle /\ WinIdle /\ DomIdle /\ PureIdle

SpecFold == InitFoldAll /\ [][NextFold]_vars

InitDomAll == InitDom /\ BpIdle /\ StIdle /\ FetchIdle /\ PureIdle

SpecDom == InitDomAll /\ [][NextDom]_vars

InitEdgeAll ==
  InitEdge /\ BpIdle /\ StIdle /\ FetchIdle /\ DragIdle /\ WinIdle /\ DomIdle

SpecEdge == InitEdgeAll /\ [][NextEdge]_vars

InitCacheAll ==
  InitCache /\ BpIdle /\ StIdle /\ DragIdle /\ WinIdle /\ DomIdle /\ PureIdle

SpecCache == InitCacheAll /\ [][NextCache]_vars

InitSortAll ==
  InitSort /\ BpIdle /\ StIdle /\ FetchIdle /\ DragIdle /\ WinIdle /\ DomIdle

SpecSort == InitSortAll /\ [][NextSort]_vars

(***************************************************************************)
(* Properties                                                              *)
(***************************************************************************)

\* The prefixes of a string that end at its end or just before a slash.
SlashPrefixes(n) ==
  IF n = Undefined THEN {}
  ELSE {SubSeq(n, 1, k) : k \in {j \in 0..Len(n) : j = Len(n) \/ n[j + 1] = Slash}}

RECURSIVE StripLeadingSlashes(_)
StripLeadingSlashes(n) ==
  IF n = Undefined \/ n = <<>> THEN n
  ELSE IF n[1] = Slash THEN StripLeadingSlashes(Tail(n)) ELSE n

RowKeys(rows) == [i \in 1..Len(rows) |-> <<rows[i].path, rows[i].type>>]

SameOpenState(os1, os2) ==
  \A p \in DOMAIN os1 \cup DOMAIN os2 : isOpen(os1, p) <=> isOpen(os2, p)

\* C1 (as claimed): on the same tree, map and path to reveal the server
\* strategy and the fallback strategy return the same ordered (path, type)
\* rows and leave the same open state.
C1_StrategiesAgree ==
  (stSrv.done /\ stFb.done) =>
    /\ RowKeys(stSrv.items) = RowKeys(stFb.items)
    /\ SameOpenState(stSrv.os, stFb.os)

\* The directories of the tree on the way from the root to the path to reveal.
DirsToReveal(t, ptu) ==
  {d \in t : d.type = "directory" /\ d.path \in SlashPrefixes(normalizePath(ptu))}

RowSet(rows) == {rows[i] : i \in 1..Len(rows)}

Revealed(t, ptu, r) ==
  /\ isOpen(r.os, RootPath)
  /\ Children(t, RootPath) \subseteq RowSet(r.items)
  /\ \A d \in DirsToReveal(t, ptu) :
       /\ d \in RowSet(r.items)
       /\ Children(t, d.path) \subseteq RowSet(r.items)
       /\ isOpen(r.os, d.path)

\* C3 (as claimed): after a fetch with a path to reveal, every directory from
\* the root down to that path is in the rows with its children and is open
\* in the map, whichever strategy served the fetch.
C3_RevealOpensPath ==
  /\ stSrv.done => Revealed(stTree, stPtu, stSrv)
  /\ stFb.done => Revealed(stTree, stPtu, stFb)

Pending(f) == f.phase \in {"server", "contents"}

\* C2: a fetch rejects only when the server attempt and the fallback attempt
\* both failed; a fetch whose server attempt alone failed and that has
\* settled resolved with the fallback's rows.
C2_RejectsOnlyWhenBothFail ==
  \A i \in DOMAIN fetches :
    /\ fetches[i].phase = "failed" =>
         (fetches[i].serverFailed /\ fetches[i].contentsError)
    /\ (fetches[i].serverFailed /\ ~fetches[i].contentsError /\ ~Pending(fetches[i])) =>
         (fetches[i].phase = "done" /\ fetches[i].source = "contents")

\* C2 witness: a fetch whose server attempt failed resolved with rows from
\* the fallback, and they are the rows on display.
C2_Witness ==
  \E i \in DOMAIN fetches :
    /\ fetches[i].serverFailed
    /\ fetches[i].phase = "done"
    /\ fetches[i].source = "contents"
    /\ Len(fetches[i].result) > 1
    /\ items = fetches[i].result

\* C5 (as claimed): at the moment a fetch resolves, by either strategy, the
\* root is open in the map, whatever was toggled before or meanwhile.
C5_RootOpenWhenFetchResolves ==
  [][\A i \in DOMAIN fetches :
       (Pending(fetches[i]) /\ fetches'[i].phase = "done")
         => isOpen(openState', RootPath)]_vars

\* C9 (as claimed): once no fetch is in flight, the rows on display are those
\* of the most recently requested fetch.
C9_LatestRequestWins ==
  ( /\ requestCounter >= 2
    /\ \A i \in DOMAIN fetches : ~Pending(fetches[i])
    /\ fetches[requestCounter].phase = "done" )
  => items = fetches[requestCounter].result


(***************************************************************************)
(* Properties of the DragDropController (SpecDrag)                         *)
(***************************************************************************)

\* C6: within one drag session (from one cleanup to the next), arriving over
\* a closed directory not yet spring-opened arms the spring-load timer; when
\* the timer's callback runs with the drop target unchanged and the directory
\* still closed, the open-path callback has been invoked exactly once for
\* that path; and no path has it invoked more than once in the session,
\* whether or not the directory is reported closed again.
C6_SpringLoadOncePerSession ==
  /\ \A p \in DragDirs : openCalls[p] <= 1
  /\ (lastOp.op = "timer" /\ lastOp.a /\ lastOp.b) => openCalls[lastOp.path] = 1
  /\ ( /\ lastOp.op = "update" /\ lastOp.a
       /\ lastOp.path \in DragDirs
       /\ lastOp.path \notin isOpenEnv
       /\ openCalls[lastOp.path] = 0 )
     => (ctl.timerPending /\ ctl.timerPath = lastOp.path)

\* A directory spring-opened in this session, reported closed again, is
\* hovered anew, and no timer is armed for it.
C6_Witness ==
  /\ lastOp.op = "update" /\ lastOp.a
  /\ lastOp.path \in DragDirs
  /\ openCalls[lastOp.path] = 1
  /\ lastOp.path \notin isOpenEnv
  /\ ctl.activeDropTargetPath = lastOp.path
  /\ ~ctl.timerPending

ScrollLimit == ScrollHeight - ClientHeight

\* C7: while a drag is in progress with the pointer held 2px above the
\* container's bottom edge, every animation frame strictly increases
\* scrollTop until it equals scrollHeight - clientHeight; a frame that leaves
\* scrollTop at that limit leaves the velocity 0 and no frame requested.
C7_EdgeScrollStopsAtLimit ==
  [][ ( /\ lastOp'.op = "frame"
        /\ ctl.dragInProgress
        /\ ctl.edgePointerClientY = RectBottom - 2 )
      => /\ (scrollTop < ScrollLimit => scrollTop' > scrollTop)
         /\ (scrollTop' = ScrollLimit =>
               (ctl'.edgeScrollVelocity = 0 /\ ctl'.edgeScrollRaf = 0)) ]_vars

CleanupJustRan ==
  lastOp.op = "cleanup" \/ (lastOp.op = "dragleave" /\ ~lastOp.a)

\* C8: after cleanup(), from whatever state it was called, there is no active
\* drop target, no pending spring-load timer, no spring-opened path, no
\* requested auto-scroll frame and the edge-scroll velocity is zero; and a
\* second cleanup() leaves the controller as it is.
C8_CleanupResets ==
  CleanupJustRan =>
    /\ ctl.activeDropTargetPath = Null
    /\ ctl.springHoverTimer = 0 /\ ~ctl.timerPending
    /\ ctl.springOpenedPaths = {}
    /\ ctl.edgeScrollRaf = 0
    /\ ctl.edgeScrollVelocity = 0
    /\ \A open \in SUBSET DragDirs : cleanup(ctl, open) = ctl

\* cleanup() ran on a controller with a drop target, a pending timer, a
\* spring-opened path and a running auto-scroll.
C8_Witness ==
  /\ lastOp.op = "cleanup"
  /\ lastOp.pre.activeDropTargetPath # Null
  /\ lastOp.pre.timerPending
  /\ lastOp.pre.springOpenedPaths # {}
  /\ lastOp.pre.edgeScrollRaf # 0
  /\ lastOp.pre.edgeScrollVelocity # 0


(***************************************************************************)
(* Properties of the VirtualizationController (SpecWin)                    *)
(***************************************************************************)

\* C10: a window computed from a row list with fewer rows than the threshold,
\* whatever the container's height and scroll position, is not virtualized,
\* starts at row 0, shows the whole row list and has both spacers 0 high.
C10_BelowThresholdWholeList ==
  (win.computed /\ Len(win.result.allItems) < vcfg.threshold) =>
    /\ win.result.virtualized = FALSE
    /\ win.result.rangeStart = 0
    /\ win.result.visibleItems = win.result.allItems
    /\ win.result.topPx = 0
    /\ win.result.bottomPx = 0

\* A window computed from a list one row short of the threshold, longer than
\* the minimum of visible rows, in a scrolled container.
C10_Witness ==
  /\ win.computed
  /\ Len(win.result.allItems) + 1 = vcfg.threshold
  /\ Len(win.result.allItems) > vcfg.minRows + 2 * vcfg.overscanRows
  /\ win.contentNode.scrollTop > 0
  /\ win.contentNode.clientHeight > 0

\* C11: every window computeWindow returns has topPx = rangeStart * rowHeight
\* and bottomPx = max(0, totalRows - (rangeStart + visibleItems.length)) *
\* rowHeight; when it is virtualized, topPx + visibleItems.length * rowHeight
\* + bottomPx = totalRows * rowHeight, whatever the scroll position.
C11_SpacersAccountForHiddenRows ==
  win.computed =>
    LET w == win.result
        totalRows == Len(w.allItems)
    IN /\ w.topPx = w.rangeStart * vcfg.rowHeight
       /\ w.bottomPx
            = Max(0, totalRows - (w.rangeStart + Len(w.visibleItems))) * vcfg.rowHeight
       /\ w.virtualized =>
            w.topPx + Len(w.visibleItems) * vcfg.rowHeight + w.bottomPx
              = totalRows * vcfg.rowHeight

\* A virtualized window of a scrolled container with rows hidden above and
\* below it.
C11_Witness ==
  /\ win.computed /\ win.result.virtualized
  /\ win.contentNode.scrollTop > 0
  /\ win.result.topPx > 0
  /\ win.result.bottomPx > 0
  /\ Len(win.result.visibleItems) > 0

\* The scroll positions compared: from above the top (a negative scrollTop)
\* to past the last row of the longest list.
ScrollPositions == -1 .. (2 * MaxRows + 1)

\* The start of the visible range at a scroll position, for the current row
\* list, container height and settings.
StartAt(st) ==
  computeVisibleRange(vcfg, Len(allItems), ContentNode(geom.clientHeight, st)).start

\* C12: for fixed totalRows, viewport height and settings, the start of
\* computeVisibleRange never decreases when the scroll position increases.
C12_StartMonotonicInScrollTop ==
  \A st1, st2 \in ScrollPositions : st1 <= st2 => StartAt(st1) <= StartAt(st2)

\* A window was computed for a list whose range starts past row 0 at one
\* scroll position and further down at a later one.
C12_Witness ==
  /\ win.computed /\ win.result.virtualized
  /\ win.result.allItems = allItems
  /\ \E st1, st2 \in ScrollPositions :
       st1 < st2 /\ 0 < StartAt(st1) /\ StartAt(st1) < StartAt(st2)

(***************************************************************************)
(* Properties of reconcileOpenStateFromItems                               *)
(***************************************************************************)

\* The expanded-path sets and root paths reconcile is tried with: every set
\* of map keys, and as root the drives' roots and a directory of the tree.
ReconcileExpandedSets == SUBSET OpenKeys

ReconcileRoots == RootPaths \cup {<<"a">>}

\* C13: reconcile is idempotent: for every map, result list, expanded-path
\* set and root, reconcileOpenStateFromItems applied twice with the same
\* inputs leaves the map it leaves when applied once.
C13_ReconcileIdempotent ==
  stSrv.done =>
    /\ \A exp \in ReconcileExpandedSets, root \in ReconcileRoots :
         LET once == reconcileOpenStateFromItems(stOpen, stSrv.items, exp, root)
         IN reconcileOpenStateFromItems(once, stSrv.items, exp, root) = once
    /\ reconcileOpenStateFromItems(stSrv.os, stSrv.items,
         buildExpandedPaths(stOpen, RootPath, stPtu), RootPath) = stSrv.os

\* The paths of the directory entries of a result that are not in the
\* expanded-path set.
UnexpandedDirectories(entries, expandedPaths) ==
  { entries[i].path :
      i \in {j \in 1..Len(entries) : /\ entries[j].type = "directory"
                                     /\ entries[j].path \notin expandedPaths} }

\* The map `after` is the map `before` with the root open, the unexpanded
\* directories of the result collapsed, and nothing else changed.
ReconcileFrame(before, after, entries, expandedPaths, rootPath) ==
  LET collapsed == UnexpandedDirectories(entries, expandedPaths)
  IN /\ DOMAIN after = DOMAIN before \cup {rootPath} \cup collapsed
     /\ after[rootPath] = TRUE
     /\ \A p \in collapsed : after[p] = FALSE
     /\ \A p \in DOMAIN after \ (collapsed \cup {rootPath}) :
          p \in DOMAIN before /\ after[p] = before[p]

\* C28: reconcileOpenStateFromItems, as fetchViaServer calls it and for every
\* expanded-path set and root path, leaves the map with the root open, the
\* directory entries of the result that are not in the expanded-path set
\* collapsed, and every other key (of a file, of an expanded directory, of a
\* path the result does not list) as it was, present or absent.
C28_ReconcileFrame ==
  stSrv.done =>
    /\ ReconcileFrame(stOpen, stSrv.os, stSrv.items,
                      buildExpandedPaths(stOpen, RootPath, stPtu), RootPath)
    /\ \A exp \in ReconcileExpandedSets, root \in RootPaths :
         ReconcileFrame(stOpen,
                        reconcileOpenStateFromItems(stOpen, stSrv.items, exp, root),
                        stSrv.items, exp, root)

\* A result with a file, with an expanded directory the map holds open and
\* with a directory the map did not hold, while the map holds open a
\* directory the result does not list.
C28_Witness ==
  /\ stSrv.done
  /\ \E i \in 1..Len(stSrv.items) : stSrv.items[i].type = "file"
  /\ \E i \in 1..Len(stSrv.items) :
       /\ stSrv.items[i].type = "directory"
       /\ isOpen(stOpen, stSrv.items[i].path)
       /\ isOpen(stSrv.os, stSrv.items[i].path)
  /\ \E i \in 1..Len(stSrv.items) :
       /\ stSrv.items[i].type = "directory"
       /\ stSrv.items[i].path \notin DOMAIN stOpen
       /\ stSrv.items[i].path \in DOMAIN stSrv.os
  /\ \E p \in DOMAIN stOpen :
       /\ stOpen[p] /\ p # RootPath
       /\ \A i \in 1..Len(stSrv.items) : stSrv.items[i].path # p
       /\ stSrv.os[p]

\* A result list with a directory the map holds open and the expanded paths
\* leave out: reconcile changes the map.
C13_Witness ==
  /\ stSrv.done
  /\ \E i \in 1..Len(stSrv.items) :
       /\ stSrv.items[i].type = "directory"
       /\ isOpen(stOpen, stSrv.items[i].path)
       /\ ~isOpen(reconcileOpenStateFromItems(stOpen, stSrv.items, {}, RootPath),
                  stSrv.items[i].path)

(***************************************************************************)
(* Properties of toggling (SpecFetch)                                      *)
(***************************************************************************)

\* Fetch i resolves in this step, it was started with no other fetch in
\* flight and no fetch was started after it.
ResolvesUnoverlapped(i) ==
  /\ Pending(fetches[i])
  /\ fetches'[i].phase = "done"
  /\ fetches[i].origin.alone
  /\ i = Len(fetches)

IsDescendant(p, dir) == StartsWith(p, dir \o <<Slash>>)

\* dir is a row, every immediate child of dir is a row after it, and only
\* descendants of dir stand between dir and that child.
ChildrenFollow(rows, dir) ==
  \E k \in 1..Len(rows) :
    /\ rows[k].path = dir
    /\ \A c \in Children(tree, dir) :
         \E n \in (k + 1)..Len(rows) :
           /\ rows[n].path = c.path
           /\ \A j \in (k + 1)..n : IsDescendant(rows[j].path, dir)

NoDescendantRows(rows, dir) ==
  \A k \in 1..Len(rows) : ~IsDescendant(rows[k].path, dir)

\* C14: when the fetch of a toggle of a directory of the row list resolves,
\* nothing else having overlapped it: if the directory was closed, its
\* immediate children follow it in the row list; if it was open, the row
\* list holds none of its descendants.
C14_ToggleUnfoldsThenFolds ==
  [][ \A i \in DOMAIN fetches :
        ( /\ ResolvesUnoverlapped(i)
          /\ fetches[i].origin.op = "toggle"
          /\ fetches[i].origin.path # RootPath )
        => IF fetches[i].origin.wasOpen
           THEN NoDescendantRows(items', fetches[i].origin.path)
           ELSE ChildrenFollow(items', fetches[i].origin.path) ]_vars

(***************************************************************************)
(* Properties of the drop (SpecDrag)                                       *)
(***************************************************************************)

\* The destination of a drop on target: the target when it is a directory of
\* the row list, its parent when it is a file of the row list, the root when
\* there is no target or the row list does not hold it.
Destination(target, rows) ==
  IF target = Null \/ \A i \in 1..Len(rows) : rows[i].path # target
  THEN RootPath
  ELSE IF (\E i \in 1..Len(rows) :
             rows[i].path = target /\ rows[i].type = "directory")
  THEN target
  ELSE Dirname(target)

\* The dragged items whose path in the directory dir differs from their path.
ItemsToTransfer(paths, dir) ==
  {i \in 1..Len(paths) : JoinPath(dir, Basename(paths[i])) # paths[i]}

DropHandled ==
  /\ lastOp.op = "drop"
  /\ lastOp.event.hasContents
  /\ lastOp.event.proposedAction # "none"

C16_CtrlMoveCopies ==
  ( /\ DropHandled
    /\ lastOp.event.ctrlKey
    /\ lastOp.event.proposedAction = "move" )
  => /\ lastOp.dropAction = "copy"
     /\ \A k \in 1..Len(lastOp.requests) :
          lastOp.requests[k].op = "copy" /\ lastOp.requests[k].to = lastOp.newDir
     /\ \A i \in ItemsToTransfer(lastOp.event.paths, lastOp.newDir) :
          \E k \in 1..Len(lastOp.requests) :
            lastOp.requests[k].path = lastOp.event.paths[i]

\* A drop with the Control key held and move proposed, on a directory, that
\* copies two items.
C16_Witness ==
  /\ DropHandled
  /\ lastOp.event.ctrlKey
  /\ lastOp.event.proposedAction = "move"
  /\ lastOp.newDir = <<"a", "/", "b">>
  /\ Len(lastOp.requests) = 2

\* C18: handleDragLeave leaves the controller as it was (drop target, spring
\* timer, spring-opened set, auto-scroll frame and velocity included) when
\* the element under the pointer is the root or inside it, and leaves it as
\* cleanup() does otherwise.
C18_DragLeaveInsideIsNoOp ==
  lastOp.op = "dragleave" =>
    IF lastOp.a THEN ctl = lastOp.pre
    ELSE ctl = cleanup(lastOp.pre, isOpenEnv)

\* A drag leave to an element inside the root, from a controller with a drop
\* target, a pending timer, a spring-opened path and a running auto-scroll.
C18_Witness ==
  /\ lastOp.op = "dragleave" /\ lastOp.a
  /\ ctl.activeDropTargetPath # Null
  /\ ctl.timerPending
  /\ ctl.springOpenedPaths # {}
  /\ ctl.edgeScrollRaf # 0
  /\ ctl.edgeScrollVelocity # 0

(***************************************************************************)
(* Properties of the scroll handling (SpecScroll)                          *)
(***************************************************************************)

\* The items the listing shows for the model's rows.
ResolvedItems == IF Len(allItems) > 0 THEN allItems ELSE virt.lastNonEmptyItems

\* No frame callback is pending and no requested update awaits processing.
ScrollSettled == virt.updateRaf = 0 /\ ~virt.updateRequested

\* C17: in a virtualized list, whatever scroll events came, once no frame
\* callback is pending and no requested update awaits processing, the
\* rendered range is computeVisibleRange of the current scroll position.
C17_RenderedRangeFollowsScroll ==
  ( /\ win.computed /\ win.result.virtualized
    /\ shouldVirtualize(vcfg, Len(ResolvedItems))
    /\ ScrollSettled )
  => LET range == computeVisibleRange(vcfg, Len(ResolvedItems), geom)
     IN /\ virt.lastRenderedRangeStart = range.start
        /\ virt.lastRenderedRangeStart + virt.lastRenderedVisibleCount = range.end

\* The list was rendered at a scroll position other than the first one it was
\* rendered at, with rows hidden above the window, and all is settled.
C17_Witness ==
  /\ win.computed /\ win.result.virtualized
  /\ ScrollSettled
  /\ geom.scrollTop > 0
  /\ win.contentNode = geom
  /\ virt.lastRenderedRangeStart > 0
  /\ lastRange = [start |-> virt.lastRenderedRangeStart,
                  end |-> virt.lastRenderedRangeStart + virt.lastRenderedVisibleCount]

(***************************************************************************)
(* Properties of overlapping fetches (SpecFetch)                           *)
(***************************************************************************)

\* Some child of dir is a row.
ShowsChildrenOf(rows, dir) ==
  \E k \in 1..Len(rows) : Dirname(rows[k].path) = dir /\ rows[k].path # dir

\* Every fetch was started by a toggle and has resolved, and there was one.
OnlyTogglesAllResolved ==
  /\ fetches # <<>>
  /\ \A i \in DOMAIN fetches :
       fetches[i].origin.op = "toggle" /\ fetches[i].phase = "done"

\* C19: once no fetch is in flight, after any interleaving of toggles and
\* fetch completions, every directory of the row list that has children has
\* them in the row list if and only if the open state holds it open.
C19_RowsAgreeWithOpenState ==
  OnlyTogglesAllResolved =>
    \A k \in 1..Len(items) :
      (items[k].type = "directory" /\ Children(tree, items[k].path) # {})
      => (ShowsChildrenOf(items, items[k].path) <=> isOpen(openState, items[k].path))

\* C20: the rows a fallback fetch returns are those its traversal yields from
\* the OpenStateMap as it was when the traversal began: a toggle made while
\* the traversal awaits a directory listing does not change them.
C20_FallbackReadsSnapshot ==
  \A i \in DOMAIN fetches :
    (fetches[i].phase = "done" /\ fetches[i].source = "contents")
    => fetches[i].result
         = fetchViaContents(tree, fetches[i].snapshot, RootPath, fetches[i].ptu).items

(***************************************************************************)
(* Properties of the spring-load timer (SpecDrag)                          *)
(***************************************************************************)

\* The open-path callback is invoked for path p in this step.
OpenPathInvoked(p) == openCalls'[p] > openCalls[p]

\* C21: the open-path callback is invoked only by a timer armed for the path
\* that is still the tracked hovered path and is closed when the timer
\* fires; the toggle it makes opens the path and closes none.
C21_SpringLoadOnlyOpens ==
  [][ \A p \in DragDirs :
        OpenPathInvoked(p) =>
          /\ ctl.timerPending /\ ctl.timerPath = p
          /\ ctl.springHoverPath = p
          /\ p \notin isOpenEnv
          /\ isOpenEnv' = isOpenEnv \cup {p} ]_vars

\* A timer fired over its closed path and opened it.
C21_Witness ==
  /\ lastOp.op = "timer" /\ lastOp.a /\ lastOp.b
  /\ openCalls[lastOp.path] = 1
  /\ lastOp.path \in isOpenEnv

\* C22: a change of the active drop target, to another row or to none,
\* leaves no timer pending for the path that was the target; a pending timer
\* is for the active drop target; and the open-path callback is invoked only
\* for the active drop target.
C22_TargetChangeCancelsTimer ==
  [][ /\ (ctl.timerPending
          /\ ctl'.activeDropTargetPath # ctl.activeDropTargetPath)
         => ~(ctl'.timerPending /\ ctl'.timerPath = ctl.timerPath)
      /\ ctl'.timerPending => ctl'.timerPath = ctl'.activeDropTargetPath
      /\ \A p \in DragDirs :
           OpenPathInvoked(p) => ctl.activeDropTargetPath = p ]_vars

\* The pointer moved from a closed directory whose timer was pending to
\* another closed directory, whose timer is pending now.
C22_Witness ==
  /\ lastOp.op = "update" /\ lastOp.a /\ lastOp.b
  /\ ctl.timerPending
  /\ ctl.timerPath = ctl.activeDropTargetPath

(***************************************************************************)
(* Properties of detaching (SpecDetach)                                    *)
(***************************************************************************)

\* The frame callback of the window recompute runs in this step and calls
\* requestUpdate.
RecomputeRequestsRepaint == UpdateFrame /\ lastOp'.a

\* cleanup() ran and no drag or scroll event arrived since.
SinceCleanup == lastOp.op = "cleanup"

\* onBeforeDetach ran and no drag or scroll event arrived since.
SinceDetach == lastOp.op = "detach"

\* No callback of the drag controller takes effect in this step.
NoDragCallbackEffect ==
  /\ \A p \in DragDirs : ~OpenPathInvoked(p)
  /\ scrollTop' = scrollTop

\* C23: after cleanup() and after onBeforeDetach, until the next drag or
\* scroll event, the open-path callback is not invoked and the controller
\* does not change scrollTop; after onBeforeDetach, until then, the window
\* recompute requests no repaint either.
C23_CancelledCallbacksStayCancelled ==
  [][ /\ (SinceCleanup \/ SinceDetach) => NoDragCallbackEffect
      /\ SinceDetach => ~RecomputeRequestsRepaint ]_vars

\* The listing was detached with a spring-load timer, an auto-scroll frame
\* and a window recompute pending, and none of them is pending any more.
C23_Witness ==
  /\ SinceDetach
  /\ lastOp.pre.timerPending /\ lastOp.a /\ lastOp.b
  /\ ~ctl.timerPending /\ ctl.edgeScrollRaf = 0 /\ virt.updateRaf = 0

\* C23 as stated: after cleanup() too, the window recompute requests no
\* repaint until the next drag or scroll event.
C23_AsStated ==
  [][ (SinceCleanup \/ SinceDetach) =>
        (NoDragCallbackEffect /\ ~RecomputeRequestsRepaint) ]_vars

\* C24: the browser never holds more than one frame callback of the window
\* recompute nor more than one of the auto-scroll, and no step in which one
\* is held leaves more of them held than before.
C24_OneFrameCallbackPerConcern ==
  /\ [](virt.updateFrames <= 1 /\ ctl.edgeFrames <= 1)
  /\ [][ /\ virt.updateFrames > 0 => virt'.updateFrames <= virt.updateFrames
         /\ ctl.edgeFrames > 0 => ctl'.edgeFrames <= ctl.edgeFrames ]_vars

\* A drag event asked for auto-scroll while its frame and the frame of the
\* window recompute were pending, and one of each is pending still.
C24_Witness ==
  /\ lastOp.op = "update"
  /\ lastOp.hadFrame /\ ctl.edgeFrames = 1
  /\ ctl.edgeScrollVelocity # 0
  /\ virt.updateFrames = 1

(***************************************************************************)
(* Properties of the window recompute (SpecScroll)                         *)
(***************************************************************************)

\* The range the last completed rendering recorded: the window it rendered
\* (setRenderedWindow), or 0 and 0 when it rendered the whole list or there
\* was none.
RecordedRange ==
  IF win.computed /\ win.result.virtualized
  THEN [start |-> win.result.rangeStart,
        end |-> win.result.rangeStart + Len(win.result.visibleItems)]
  ELSE [start |-> 0, end |-> 0]

\* C25: the frame callback of the window recompute calls requestUpdate if
\* and only if the range it computes differs from the range the last
\* completed rendering recorded; when the rows and the scroll position did
\* not change since the last rendering it does not call it.
C25_RepaintIffRangeDiffersFromRendered ==
  [][ UpdateFrame =>
        /\ lastOp'.a <=> (lastRange' # RecordedRange)
        /\ lastOp'.b => ~lastOp'.a ]_vars

\* The frame callback ran with the rows and the scroll position unchanged
\* since the rendering of a window that hides rows above it, and requested
\* no repaint.
C25_Witness ==
  /\ lastOp.op = "recompute" /\ lastOp.b /\ ~lastOp.a
  /\ win.result.virtualized /\ win.result.rangeStart > 0
  /\ virt.updateFrames = 0

(***************************************************************************)
(* Properties of computeVisibleRange (SpecWin)                             *)
(***************************************************************************)

\* The range of the four formulas, for a viewport of the given height.
FormulaRange(cfg, totalRows, viewportHeight, scrollTopPx) ==
  LET visibleRowCount == Max(cfg.minRows, CeilDiv(viewportHeight, cfg.rowHeight))
      firstVisible == Max(0, Min(totalRows - 1, scrollTopPx \div cfg.rowHeight))
      start == Max(0, firstVisible - cfg.overscanRows)
      end == Max(start + 1,
                 Min(totalRows, firstVisible + visibleRowCount + cfg.overscanRows))
  IN [start |-> start, end |-> end]

\* The range stored by the computation of the last virtualized window.
ComputedRange == win.result.lastRange

\* C26: for a list with rows, computeVisibleRange returns the range of the
\* four formulas for a viewport as high as the container and at least as high
\* as one row; for a list without rows it returns start = 0 and end = 0; for
\* 20000 rows of 24px, a container 600px high at scroll position 0 and the
\* default settings it returns start = 0 and end = 280.
C26_VisibleRangeFormula ==
  /\ (win.computed /\ win.result.virtualized) =>
       LET totalRows == Len(win.result.allItems)
           node == win.contentNode
       IN ComputedRange =
            IF totalRows > 0
            THEN FormulaRange(vcfg, totalRows,
                              Max(node.clientHeight, vcfg.rowHeight),
                              node.scrollTop)
            ELSE [start |-> 0, end |-> 0]
  /\ computeVisibleRange(VirtualizationController(NoOptions), 20000,
                         ContentNode(600, 0)) = [start |-> 0, end |-> 280]

\* A range was computed in a container less than a row high, with no minimum
\* of rows, at a scroll position past the overscan.
C26_Witness ==
  /\ win.computed /\ win.result.virtualized
  /\ vcfg.minRows = 0
  /\ win.contentNode.clientHeight < vcfg.rowHeight
  /\ ComputedRange.start > 0
  /\ ComputedRange.end < Len(win.result.allItems)

\* C26 as stated: the range of the four formulas for the container's height,
\* for every number of rows.
C26_AsStated ==
  (win.computed /\ win.result.virtualized) =>
    ComputedRange = FormulaRange(vcfg, Len(win.result.allItems),
                                 win.contentNode.clientHeight,
                                 win.contentNode.scrollTop)

\* firstVisible of computeVisibleRange.
FirstVisible(cfg, totalItems, contentNode) ==
  Min(Max(0, totalItems - 1), Max(0, contentNode.scrollTop) \div cfg.rowHeight)

\* Row i, drawn from i * rowHeight to (i + 1) * rowHeight, intersects the
\* viewport from scrollTop to scrollTop + clientHeight.
IntersectsViewport(cfg, i, contentNode) ==
  /\ i * cfg.rowHeight < contentNode.scrollTop + contentNode.clientHeight
  /\ (i + 1) * cfg.rowHeight > contentNode.scrollTop

\* Every row of the list that intersects the viewport is in the range.
RangeCoversViewport(cfg, totalItems, contentNode) ==
  LET range == computeVisibleRange(cfg, totalItems, contentNode)
  IN \A i \in 0..(totalItems - 1) :
       IntersectsViewport(cfg, i, contentNode)
         => (range.start <= i /\ i < range.end)

\* Lists the default settings virtualize, container heights up to more than
\* minRows rows, and scroll positions from the top to past the last row.
DefaultTotals == {2500, 20000}

DefaultHeights == {0, 1, 24, 600, 601, 4801, 5000}

DefaultScrollTops(totalItems) ==
  {0, 1, 23, 24, 1000, 24 * totalItems - 600, 24 * totalItems - 1,
   24 * totalItems + 100}

\* With the default settings the range covers the viewport.
DefaultRangeCoversViewport ==
  \A totalItems \in DefaultTotals, h \in DefaultHeights :
    \A st \in DefaultScrollTops(totalItems) :
      /\ shouldVirtualize(VirtualizationController(NoOptions), totalItems)
      /\ RangeCoversViewport(VirtualizationController(NoOptions), totalItems,
                             ContentNode(h, st))

\* C27: the range of every virtualized window of a list with rows satisfies
\* 0 <= start <= firstVisible < end <= totalRows; with overscan rows, as in
\* the default settings, and with the default settings themselves, every row
\* that intersects the viewport is in the range.
C27_RangeBoundsAndCoverage ==
  /\ ( /\ win.computed /\ win.result.virtualized
       /\ Len(win.result.allItems) > 0 ) =>
       LET totalRows == Len(win.result.allItems)
           firstVisible == FirstVisible(vcfg, totalRows, win.contentNode)
       IN /\ 0 <= ComputedRange.start
          /\ ComputedRange.start <= firstVisible
          /\ firstVisible < ComputedRange.end
          /\ ComputedRange.end <= totalRows
          /\ vcfg.overscanRows >= 1 =>
               /\ ComputedRange
                    = computeVisibleRange(vcfg, totalRows, win.contentNode)
               /\ RangeCoversViewport(vcfg, totalRows, win.contentNode)
  /\ DefaultRangeCoversViewport

\* A window with overscan rows was computed whose viewport begins inside a
\* row past the first and whose range ends before the last row.
C27_Witness ==
  /\ win.computed /\ win.result.virtualized
  /\ vcfg.overscanRows >= 1 /\ vcfg.rowHeight = 2
  /\ win.contentNode.scrollTop = 1
  /\ win.contentNode.clientHeight > 0
  /\ ComputedRange.end < Len(win.result.allItems)
  /\ IntersectsViewport(vcfg, 1, win.contentNode)

\* C30: the OpenStateMap the fallback traversal of a fetch starts from is the
\* map as it was when the server attempt of that fetch failed: the failed
\* attempt wrote nothing to it.
C30_FailedAttemptLeavesMap ==
  [][ \A i \in DOMAIN fetches :
        (fetches[i].phase = "server" /\ fetches'[i].serverFailed)
        => fetches'[i].snapshot = openState ]_vars

(***************************************************************************)
(* Properties of folding and unfolding (SpecFold)                          *)
(***************************************************************************)

\* The stored flag of a path: none, true or false.
StoredFlag(os, p) == IF p \in DOMAIN os THEN <<os[p]>> ELSE <<>>

\* The directories below dir.
DescendantDirectories(dir) ==
  {e.path : e \in {d \in tree : d.type = "directory" /\ IsDescendant(d.path, dir)}}

\* Call k folded a directory other than the root.
Folds(k) ==
  /\ fetches[k].origin.op = "toggle"
  /\ fetches[k].origin.wasOpen
  /\ fetches[k].origin.path # RootPath

\* C29: a toggle that folds directory D, with its fetch answered by either
\* strategy, leaves the stored flag of every directory below D as it was;
\* when the next call toggles D again, the directories below D whose children
\* were rows before the fold have their children as rows again.
C29_FoldKeepsDescendants ==
  \A k \in DOMAIN fetches :
    Folds(k) =>
      LET D == fetches[k].origin.path
      IN /\ \A E \in DescendantDirectories(D) :
              StoredFlag(fetches[k].after.os, E)
                = StoredFlag(fetches[k].before.os, E)
         /\ ( /\ k + 1 \in DOMAIN fetches
              /\ fetches[k + 1].origin.op = "toggle"
              /\ fetches[k + 1].origin.path = D )
            => \A E \in DescendantDirectories(D) :
                 ShowsChildrenOf(fetches[k].before.rows, E)
                   => ShowsChildrenOf(fetches[k + 1].after.rows, E)

\* The slots of the row nodes that carry the drop-target class.
MarkedSlots == {i \in 1..Len(dom.items) : dom.items[i].marked}

\* C31: at most one row node carries the drop-target class, a node that
\* carries it is bound to activeDropTargetPath, and after cleanup() no node
\* carries it, repaints of the nodes during the drag included.
C31_OneMarkerOnActiveTarget ==
  /\ Cardinality(MarkedSlots) <= 1
  /\ \A i \in MarkedSlots : dom.items[i].path = ctl.activeDropTargetPath
  /\ lastOp.op = "cleanup" => MarkedSlots = {}

\* C32: at most one spring-load timer is pending, and the path of a pending
\* timer is activeDropTargetPath, names a directory among the model's rows,
\* and is not in the spring-opened set.
C32_PendingTimerOnActiveDirectory ==
  /\ ctl.timers <= 1
  /\ ctl.timers > 0 =>
       /\ ctl.timerPath = ctl.activeDropTargetPath
       /\ getItemByPath(ctl.timerPath) # NullItem
       /\ getItemByPath(ctl.timerPath).type = "directory"
       /\ ctl.timerPath \notin ctl.springOpenedPaths

\* The part of C32 that does not depend on the model's rows.
TimerOnActiveTarget ==
  /\ ctl.timers <= 1
  /\ ctl.timers > 0 =>
       /\ ctl.timerPending
       /\ ctl.timerPath = ctl.activeDropTargetPath
       /\ ctl.timerPath \notin ctl.springOpenedPaths

\* C33: between the controller's operations an auto-scroll frame callback is
\* pending exactly when the edge-scroll velocity is not 0, and the velocity
\* is not 0 only during a drag.
C33_FramePendingIffVelocity ==
  /\ (ctl.edgeFrames > 0) <=> (ctl.edgeScrollVelocity # 0)
  /\ (ctl.edgeScrollRaf # 0) <=> (ctl.edgeFrames > 0)
  /\ ctl.edgeScrollVelocity # 0 => ctl.dragInProgress

\* A frame callback ran with the pointer in an edge zone and requested the
\* next frame.
C33_Witness ==
  /\ lastOp.op = "frame"
  /\ ctl.dragInProgress
  /\ ctl.edgeScrollVelocity # 0
  /\ ctl.edgeFrames = 1

\* The speed in units per frame at a distance from the edge inside the zone:
\* 20 * (1 - distance/28)^2 pixels.
ZoneSpeed(distance) ==
  EDGE_SCROLL_MAX_PX_PER_FRAME * (EDGE_SCROLL_ZONE_PX - distance)
                               * (EDGE_SCROLL_ZONE_PX - distance)

Magnitude(v) == IF v < 0 THEN 0 - v ELSE v

\* C34: computeEdgeScrollVelocity is 0 outside the rectangle and 28px or more
\* from both edges, negative less than 28px below the top edge, positive less
\* than 28px above the bottom edge when the top zone does not apply; its
\* magnitude is 20 * (1 - distance/28)^2, at most 20, and not smaller one
\* pixel nearer to the edge.
C34_EdgeScrollVelocity ==
  pure.done =>
    LET y == pure.clientY
        rect == pure.rect
        v == pure.velocity
        inside == y >= rect.top /\ y <= rect.bottom
        topDistance == y - rect.top
        bottomDistance == rect.bottom - y
        inTop == inside /\ topDistance < EDGE_SCROLL_ZONE_PX
        inBottom == inside /\ bottomDistance < EDGE_SCROLL_ZONE_PX
    IN /\ ~inside => v = 0
       /\ (inside /\ ~inTop /\ ~inBottom) => v = 0
       /\ inTop => v < 0 /\ Magnitude(v) = ZoneSpeed(topDistance)
       /\ (inBottom /\ ~inTop) => v > 0 /\ Magnitude(v) = ZoneSpeed(bottomDistance)
       /\ Magnitude(v) <= EDGE_SCROLL_MAX_PX_PER_FRAME * ScrollUnit
       /\ (inTop /\ y - 1 >= rect.top) =>
            Magnitude(edgeScrollVelocity(rect, y - 1)) >= Magnitude(v)
       /\ (inBottom /\ ~inTop /\ y + 1 <= rect.bottom) =>
            Magnitude(edgeScrollVelocity(rect, y + 1)) >= Magnitude(v)

\* The pointer is less than 28px from both edges of a low container and the
\* velocity computed is that of the top zone.
C34_Witness ==
  /\ pure.done
  /\ pure.clientY - pure.rect.top < EDGE_SCROLL_ZONE_PX
  /\ pure.clientY - pure.rect.top > 0
  /\ pure.rect.bottom - pure.clientY < pure.clientY - pure.rect.top
  /\ pure.velocity < 0

\* The containers and velocities nextScrollTop is evaluated on: content
\* shorter than, as high as and higher than the container.
StepScrollHeights == {0, 48, 72, 120}

StepVelocities == {computeEdgeScrollVelocity(y) : y \in PointerYs}

\* nextScrollTop is within [0, scrollHeight - clientHeight], and 0 when the
\* content is not higher than the container.
StepStaysInRange ==
  \A sh \in StepScrollHeights, v \in StepVelocities :
    LET limit == (sh - ClientHeightPx) * ScrollUnit
    IN \A st \in {0, Max(0, limit) \div 2, Max(0, limit)} :
         LET next == clampedScrollTop(sh * ScrollUnit, ClientHeight, st, v)
         IN /\ next >= 0
            /\ next <= Max(0, limit)
            /\ limit <= 0 => next = 0

\* C35: every auto-scroll step leaves scrollTop within
\* [0, scrollHeight - clientHeight] (at 0 when the content is shorter than the
\* container), and after the step the active drop target is the row under
\* the last known pointer position at the new scroll position.
C35_StepClampsAndReresolves ==
  /\ StepStaysInRange
  /\ scrollTop >= 0
  /\ scrollTop <= ScrollHeight - ClientHeight
  /\ lastOp.op = "frame" =>
       ctl.activeDropTargetPath = RowAt(ctl.edgePointerClientY, scrollTop)

\* A step scrolled the list and the active drop target is a row that was not
\* under the pointer before the list was scrolled.
C35_Witness ==
  /\ lastOp.op = "frame"
  /\ scrollTop > 0
  /\ ctl.activeDropTargetPath # Null
  /\ ctl.activeDropTargetPath = RowAt(ctl.edgePointerClientY, scrollTop)
  /\ ctl.activeDropTargetPath # RowAt(ctl.edgePointerClientY, 0)

\* The children of a container that holds the spacers around n row nodes.
SpacedChildren(n) ==
  <<TopSpacer>> \o [i \in 1..n |-> RowNode(i)] \o <<BottomSpacer>>

HasChild(node) == \E k \in 1..Len(dom.children) : dom.children[k] = node

\* C36: after a virtualized update there are end - start row nodes, the
\* container's children are the top spacer, the row nodes in slot order and
\* the bottom spacer, slot i is bound to row rangeStart + i, and the recorded
\* rendered range is the computed window; after an update that is not
\* virtualized neither spacer is in the container.
C36_RenderedNodesMatchWindow ==
  lastOp.op = "render" =>
    IF lastOp.a
    THEN LET range == win.result.lastRange
             n == range.end - range.start
         IN /\ win.result.virtualized
            /\ Len(dom.items) = n
            /\ dom.children = SpacedChildren(n)
            /\ \A i \in 1..n :
                 dom.items[i].path = win.result.allItems[range.start + i].path
            /\ virt.lastRenderedRangeStart = range.start
            /\ virt.lastRenderedRangeStart + virt.lastRenderedVisibleCount = range.end
    ELSE ~HasChild(TopSpacer) /\ ~HasChild(BottomSpacer)

\* A virtualized update that found one row node and the spacers in the
\* container and left two row nodes between the spacers, bound to the first
\* two rows.
C36_Witness ==
  /\ lastOp.op = "render"
  /\ lastOp.a
  /\ lastOp.b
  /\ Len(dom.items) = 2
  /\ dom.children = SpacedChildren(2)
  /\ win.result.rangeStart = 0

\* The position of the last clearing of the cache in the log, 0 when there
\* was none.
LastClearing ==
  LET S == {j \in DOMAIN fetches : fetches[j].op # "get"}
  IN IF S = {} THEN 0 ELSE CHOOSE j \in S : \A k \in S : k <= j

\* The listing of the path that call j of the log found in the cache came
\* from a request made after the last clearing before the call.
ServedFromFreshRequest(j) ==
  \E k \in 1..(j - 1) :
    /\ IsRequest(fetches[k]) /\ fetches[k].path = fetches[j].path
    /\ \A c \in k..j : fetches[c].op = "get"

\* A call served from the cache returned a listing that an earlier request
\* of the path stored, and made no request: the requests counted are the
\* calls that found no listing.
ServedWithoutRequest ==
  /\ \A j \in DOMAIN fetches :
       (fetches[j].op = "get" /\ fetches[j].phase = "hit") =>
         \E k \in 1..(j - 1) :
           /\ IsRequest(fetches[k]) /\ fetches[k].path = fetches[j].path
           /\ fetches[j].content = sortContents(fetches[k].content)
  /\ requestCounter = Cardinality({j \in DOMAIN fetches : IsRequest(fetches[j])})

\* C37: a file change and a forced refresh leave the cache empty, the first
\* listing of a directory after that goes to the contents manager, and a
\* listing of a cached directory returns the cached list.
C37_ClearedCacheRefetches ==
  /\ (fetches # <<>> /\ fetches[Len(fetches)].phase = "cleared") =>
       directoryCache = EmptyCache
  /\ \A j \in DOMAIN fetches :
       (fetches[j].op = "get" /\ fetches[j].phase = "hit") =>
         ServedFromFreshRequest(j)
  /\ ServedWithoutRequest

\* The parts of C37 that hold: clearings empty the cache, and a cached
\* listing is returned as it is cached.
ClearingEmptiesCache ==
  /\ (fetches # <<>> /\ fetches[Len(fetches)].phase = "cleared") =>
       directoryCache = EmptyCache
  /\ ServedWithoutRequest

\* C38: no listing whose request was made before a clearing of the cache is
\* in the cache after it, or is returned to a call made after it.
C38_NoListingFromBeforeClearing ==
  /\ \A j \in DOMAIN fetches :
       (fetches[j].op = "get" /\ fetches[j].phase = "stored") => ~fetches[j].before
  /\ \A j \in DOMAIN fetches :
       (fetches[j].op = "get" /\ fetches[j].phase = "hit") => ~fetches[j].before

\* How often an entry occurs in a listing.
Occurrences(list, e) == Cardinality({i \in DOMAIN list : list[i] = e})

IsPermutation(out, data) ==
  /\ Len(out) = Len(data)
  /\ \A i \in DOMAIN data : Occurrences(out, data[i]) = Occurrences(data, data[i])

\* a is not after b in the order of their UTF-16 code units: a is a prefix of
\* b, or a has the smaller code unit where they first differ.
CodeUnitLeq(a, b) ==
  \/ Len(a) <= Len(b) /\ \A i \in 1..Len(a) : a[i] = b[i]
  \/ \E k \in 1..Min(Len(a), Len(b)) :
       /\ \A i \in 1..(k - 1) : a[i] = b[i]
       /\ CharCode(a[k]) < CharCode(b[k])

\* Directories before the other entries, each group ascending by name.
DirectoriesFirstByName(list) ==
  \A i, j \in DOMAIN list :
    i < j =>
      /\ list[j].type = "directory" => list[i].type = "directory"
      /\ (list[i].type = "directory") = (list[j].type = "directory") =>
           CodeUnitLeq(list[i].name, list[j].name)

\* The rows of a listing that are children of a directory, in their order.
ChildRows(rows, dir) == SelectSeq(rows, LAMBDA e : Dirname(e.path) = dir)

\* The rows of the fallback, directory by directory, for every tree of the
\* model, with no directory, with a and with a and a/b open.
FallbackRowsInOrder ==
  \A t \in FetchTrees, ptu \in {RootPath, <<"/", "a">>, <<"/", "a", "/", "b">>} :
    LET rows == fetchViaContents(t, EmptyCache, RootPath, ptu).items
    IN \A dir \in {RootPath, <<"a">>, <<"a", "/", "b">>} :
         DirectoriesFirstByName(ChildRows(rows, dir))

\* C39: sortContents returns a permutation of its input with every directory
\* before every other entry and each of the two groups in ascending
\* code-unit order of name; the rows the fallback returns for one directory
\* are in this order.
C39_SortContentsOrder ==
  /\ pure.done => /\ IsPermutation(pure.out, pure.data)
                  /\ DirectoriesFirstByName(pure.out)
  /\ FallbackRowsInOrder

\* A listing with a file before a directory and the name a before the name
\* B was sorted.
C39_Witness ==
  /\ pure.done
  /\ Len(pure.data) = 3
  /\ pure.data[1] = Entry(<<"a">>, "file")
  /\ pure.data[2] = Entry(<<"B">>, "file")
  /\ pure.data[3] = Entry(<<"a", "b">>, "directory")
  /\ pure.out = <<pure.data[3], pure.data[2], pure.data[1]>>

\* The operations in which the listing calls resolveAllItems.
Resolves(op) == op \in {"scroll", "recompute", "render"}

\* C40: resolveAllItems returns the latest row list of the model when it is
\* not empty and otherwise the non-empty list it was last called with; so
\* once it has seen a non-empty list no window is computed on an empty one,
\* and a virtualized update paints rows of the previous list while the model
\* has none.
C40_ResolveAllItemsKeepsLastRows ==
  /\ [](lastOp.op = "render" =>
          /\ win.result.allItems =
               IF allItems # <<>> THEN allItems ELSE virt.lastNonEmptyItems
          /\ virt.lastNonEmptyItems # <<>> => win.result.allItems # <<>>
          /\ (lastOp.a /\ allItems = <<>>) =>
               /\ Len(dom.items) > 0
               /\ \A i \in 1..Len(dom.items) :
                    dom.items[i].path =
                      virt.lastNonEmptyItems[win.result.rangeStart + i].path)
  /\ [][/\ virt'.lastNonEmptyItems =
             IF Resolves(lastOp'.op) /\ allItems # <<>>
             THEN allItems ELSE virt.lastNonEmptyItems
        /\ virt.lastNonEmptyItems # <<>> => virt'.lastNonEmptyItems # <<>>]_vars

\* A virtualized update while the model has no rows, after the list of five
\* rows was seen: the window is computed on the five rows and their first
\* two are painted.
C40_Witness ==
  /\ lastOp.op = "render"
  /\ lastOp.a
  /\ allItems = <<>>
  /\ win.result.allItems = DragRows
  /\ Len(dom.items) = 2
  /\ dom.items[1].path = DragRows[1].path

====
